---- MODULE Spec2Model ----
(***************************************************************************)
(* A model of django_components' component rendering lifecycle             *)
(* (component.py) and of its dependency aggregation pipeline               *)
(* (dependencies.py): the inlined-asset cache, the class registry, the     *)
(* dependency marker, the aggregator and the serving endpoint.             *)
(*                                                                         *)
(* Text is modelled as a sequence of symbols.  A symbol is a one-character *)
(* string, or a string standing for one fixed literal of the source (the   *)
(* opening "<!-- _RENDERED " of a marker, a placeholder token, ...).       *)
(***************************************************************************)
EXTENDS Integers, Sequences, FiniteSets, TLC

VARIABLES
    cache,        \* comp_media_cache._data: cache key -> content
    registry,     \* comp_hash_mapping: class hash -> component class
    renderStack,  \* Component._render_stack of every live instance
    callStack,    \* the activations of Component._render of the rendering thread
    exc,          \* the exception raised in the last top-level render and the one that left it
    result,       \* what the last finished top-level render gave its caller
    lastExit,     \* the calls of _render that ended in the last step: stack depth before, after
    aggLog,       \* the aggregator runs of the current render tree
    response,     \* the request last answered by cached_script_view, with its answer
    writes,       \* per cache key, the contents handed to the calls that wrote it
    rendered,     \* the classes whose render has started, and those that finished one
    threads,      \* the concurrent renders, each inside lines 720-721 of _render_impl
    pin,          \* the input of the last call of a pure function
    pout          \* what that call returned

vars == <<cache, registry, renderStack, callStack, exc, result, lastExit, aggLog,
          response, writes, rendered, threads, pin, pout>>

-----------------------------------------------------------------------------
(* Bounds of the model *)

MaxDepth == 3      \* deepest nesting of _render activations
MaxThreads == 2    \* concurrent first renders
MaxMarkers == 5    \* markers in a scanned document
MaxNameLen == 2    \* longest class hash and component id of a free-form marker
MaxTags == 3       \* media tags handed to _postprocess_media_tags

-----------------------------------------------------------------------------
(* Text helpers *)

None == <<"None">>

Whitespace == {" "}

Min(S) == CHOOSE x \in S : \A y \in S : x <= y
Max(S) == CHOOSE x \in S : \A y \in S : x >= y

\* str.strip()
Strip(s) ==
    LET keep == {i \in 1..Len(s) : s[i] \notin Whitespace}
    IN  IF keep = {} THEN <<>> ELSE SubSeq(s, Min(keep), Max(keep))

\* _is_nonempty_str
IsNonemptyStr(txt) == txt # None /\ Strip(txt) # <<>>

\* `value or ""`
OrEmpty(txt) == IF txt = None THEN <<>> ELSE txt

\* All sequences over S of length lo..hi
SeqsOf(S, lo, hi) == UNION {[1..n -> S] : n \in lo..hi}

RECURSIVE Concat(_)
Concat(ss) ==
    IF ss = <<>> THEN <<>>
    ELSE IF Len(ss) = 1 THEN ss[1]
    ELSE Concat(SubSeq(ss, 1, Len(ss) \div 2)) \o Concat(SubSeq(ss, Len(ss) \div 2 + 1, Len(ss)))

-----------------------------------------------------------------------------
(* Component classes.  Each class stands for one way of declaring inlined  *)
(* assets: js only, css only, both (with surrounding whitespace), neither. *)
(* Two more classes, E and F, are only met by the direct calls of          *)
(* render_dependencies: their js and css hold an end tag.                  *)

Classes == {"A", "B", "C", "D"}

\* Component.js of the class
ClsJs(cls) ==
    CASE cls = "A" -> <<"w">>
      [] cls = "B" -> None
      [] cls = "C" -> <<" ", "x">>
      [] cls = "E" -> <<"x", "</script", ">">>
      [] cls = "F" -> <<"x">>
      [] OTHER     -> <<" ">>

\* Component.css of the class
ClsCss(cls) ==
    CASE cls = "A" -> None
      [] cls = "B" -> <<"y">>
      [] cls = "C" -> <<"y", " ">>
      [] cls = "E" -> None
      [] cls = "F" -> <<"y", "</style", ">">>
      [] OTHER     -> <<>>

ScriptTypes == {"js", "css"}

ClsScript(cls, type) == IF type = "js" THEN ClsJs(cls) ELSE ClsCss(cls)

\* _hash_comp_cls: the class name, "_", and the head of the md5 digest of
\* its import path (one symbol stands for the six hex digits)
HashCompCls(cls) == <<cls, "_", "0">>

ClassHashes == {HashCompCls(c) : c \in Classes}

\* the class a hash was derived from
ClassOfHash(h) == CHOOSE c \in Classes \cup {"E", "F"} : HashCompCls(c) = h

-----------------------------------------------------------------------------
(* 1. The cache of inlined JS and CSS *)

\* _gen_cache_key
GenCacheKey(comp_cls_hash, script_type) ==
    <<"__components:">> \o comp_cls_hash \o <<":", script_type>>

EmptyCache == [k \in {} |-> None]

\* InMemoryComponentMediaCache.has / get / set
CacheHas(data, key) == key \in DOMAIN data
CacheGet(data, key) == IF key \in DOMAIN data THEN data[key] ELSE None
CacheSet(data, key, value) == (key :> value) @@ data

\* _is_script_in_cache
IsScriptInCache(data, cls, script_type) ==
    CacheHas(data, GenCacheKey(HashCompCls(cls), script_type))

\* _cache_script
CacheScript(data, cls, script, script_type) ==
    CacheSet(data, GenCacheKey(HashCompCls(cls), script_type), Strip(script))

\* cache_inlined_js without the check of line 156: every call writes
CacheInlinedJsAlwaysWrites(data, cls, content) ==
    IF ~IsNonemptyStr(ClsJs(cls)) THEN data
    ELSE CacheScript(data, cls, content, "js")

\* cache_inlined_js
CacheInlinedJs(data, cls, content) ==
    IF ~IsNonemptyStr(ClsJs(cls)) THEN data
    ELSE IF ~IsScriptInCache(data, cls, "js")
         THEN CacheScript(data, cls, content, "js")
         ELSE data

\* cache_inlined_css: the guard reads the class's js, as line 165 does
CacheInlinedCss(data, cls, content) ==
    IF ~IsNonemptyStr(ClsJs(cls)) THEN data
    ELSE IF ~IsScriptInCache(data, cls, "css")
         THEN CacheScript(data, cls, content, "css")
         ELSE data

\* The calls that wrote: a key that is new, or whose content changed,
\* gets the content handed to the call appended to its history.
Wrote(old, new, ws, content) ==
    [k \in DOMAIN new |->
        IF k \notin DOMAIN old THEN <<content>>
        ELSE IF new[k] # old[k] THEN Append(ws[k], content)
        ELSE ws[k]]

-----------------------------------------------------------------------------
(* 4. The endpoint serving the cached scripts *)

Methods == {"GET", "POST"}

\* _CONTENT_TYPES
ContentTypes(script_type) == IF script_type = "js" THEN "text/javascript" ELSE "text/css"

\* cached_script_view asking the cache before it looks at the method
CachedScriptViewMissingFirst(data, method, comp_cls_hash, script_type) ==
    LET script == CacheGet(data, GenCacheKey(comp_cls_hash, script_type))
    IN  IF script = None
        THEN [status |-> 404, body |-> <<>>, ctype |-> "none"]
        ELSE IF method # "GET"
        THEN [status |-> 405, body |-> <<>>, ctype |-> "none"]
        ELSE [status |-> 200, body |-> script, ctype |-> ContentTypes(script_type)]

\* cached_script_view
CachedScriptView(data, method, comp_cls_hash, script_type) ==
    IF method # "GET"
    THEN [status |-> 405, body |-> <<>>, ctype |-> "none"]
    ELSE LET script == CacheGet(data, GenCacheKey(comp_cls_hash, script_type))
         IN  IF script = None
             THEN [status |-> 404, body |-> <<>>, ctype |-> "none"]
             ELSE [status |-> 200, body |-> script, ctype |-> ContentTypes(script_type)]

UnknownHash == <<"Z", "_", "0">>
RequestHashes == ClassHashes \cup {UnknownHash}

NoResponse ==
    [method |-> "none", hash |-> <<>>, type |-> "none", started |-> FALSE,
     finished |-> FALSE, answer |-> [status |-> 0, body |-> <<>>, ctype |-> "none"]]

\* One request to the endpoint, answered from the cache as it is now
View(method, comp_cls_hash, script_type) ==
    /\ response' =
          [method |-> method, hash |-> comp_cls_hash, type |-> script_type,
           started |-> \E c \in rendered.started : HashCompCls(c) = comp_cls_hash,
           finished |-> \E c \in rendered.finished : HashCompCls(c) = comp_cls_hash,
           answer |-> CachedScriptView(cache, method, comp_cls_hash, script_type)]
    /\ UNCHANGED <<cache, registry, renderStack, callStack, exc, result, lastExit,
                   aggLog, writes, rendered, threads, pin, pout>>

-----------------------------------------------------------------------------
(* SpecCache: direct calls of cache_inlined_js / cache_inlined_css, in any  *)
(* order and with any content.                                             *)

\* the contents handed to a call: empty, whitespace only, plain, padded
Contents == {<<>>, <<" ">>, <<"x">>, <<" ", "x">>, <<"y", " ">>}

CallCacheInlinedJs(cls, content) ==
    /\ cache' = CacheInlinedJs(cache, cls, content)
    /\ writes' = Wrote(cache, cache', writes, content)
    /\ pin' = [cls |-> cls, type |-> "js", content |-> content]
    /\ UNCHANGED <<registry, renderStack, callStack, exc, result, lastExit, aggLog,
                   response, rendered, threads, pout>>

CallCacheInlinedCss(cls, content) ==
    /\ cache' = CacheInlinedCss(cache, cls, content)
    /\ writes' = Wrote(cache, cache', writes, content)
    /\ pin' = [cls |-> cls, type |-> "css", content |-> content]
    /\ UNCHANGED <<registry, renderStack, callStack, exc, result, lastExit, aggLog,
                   response, rendered, threads, pout>>

InitIdle ==
    /\ cache = EmptyCache
    /\ registry = EmptyCache
    /\ renderStack = EmptyCache
    /\ callStack = <<>>
    /\ exc = None
    /\ result = None
    /\ lastExit = None
    /\ aggLog = <<>>
    /\ response = NoResponse
    /\ writes = EmptyCache
    /\ rendered = [started |-> {}, finished |-> {}]
    /\ threads = <<>>
    /\ pin = None
    /\ pout = None

InitCache ==
    /\ InitIdle!1 /\ InitIdle!2 /\ InitIdle!3 /\ InitIdle!4 /\ InitIdle!5
    /\ InitIdle!6 /\ InitIdle!7 /\ InitIdle!8 /\ InitIdle!9 /\ InitIdle!10
    /\ InitIdle!11 /\ InitIdle!12 /\ InitIdle!14
    /\ pin = [cls |-> "none", type |-> "none", content |-> <<>>]

NextCache ==
    \/ \E cls \in Classes, content \in Contents : CallCacheInlinedJs(cls, content)
    \/ \E cls \in Classes, content \in Contents : CallCacheInlinedCss(cls, content)

SpecCache == InitCache /\ [][NextCache]_vars

-----------------------------------------------------------------------------
(* 2. The dependency marker, and 3. scanning it in aggregation *)

\* [\w] of a bytes pattern: ASCII letters, digits and "_"
WordChars == {"A", "B", "C", "D", "E", "F", "Z", "a", "n", "u", "0", "1", "2", "3", "_"}

\* the character class of COMPONENT_COMMENT_REGEX: [\w\-,/]
CommentDataChars == WordChars \cup {"-", ",", "/"}

\* the character class of comp_cls_hash in SCRIPT_NAME_REGEX: [\w\-\./]
HashChars == WordChars \cup {"-", ".", "/"}

\* COMPONENT_DEPS_COMMENT: "<!-- _RENDERED {data} -->"
CommentOpen == "<!-- _RENDERED "
CommentClose == " -->"

\* _insert_component_comment, the text it returns
InsertComponentComment(content, comp_cls_hash, component_id) ==
    <<CommentOpen>> \o (comp_cls_hash \o <<",">> \o component_id) \o <<CommentClose>> \o content

\* COMPONENT_COMMENT_REGEX tried at position i: the position of the closing
\* " -->" of a match starting at i, or 0 when there is no match at i
CommentMatchEnd(doc, i) ==
    IF doc[i] # CommentOpen THEN 0
    ELSE LET stops == {j \in (i + 1)..Len(doc) : doc[j] \notin CommentDataChars}
         IN  IF stops = {} THEN 0
             ELSE LET j == Min(stops)
                  IN  IF doc[j] = CommentClose /\ j > i + 1 THEN j ELSE 0

\* COMPONENT_COMMENT_REGEX.sub(on_replace_match, content), from position i:
\* the text without the matches, taken leftmost first, and the data of each
\* match in order
RECURSIVE SubComments(_, _)
SubComments(doc, i) ==
    LET starts == {k \in i..Len(doc) : CommentMatchEnd(doc, k) > 0}
    IN  IF starts = {} THEN [content |-> SubSeq(doc, i, Len(doc)), parts |-> <<>>]
        ELSE LET k == Min(starts)
                 j == CommentMatchEnd(doc, k)
                 rest == SubComments(doc, j + 1)
             IN  [content |-> SubSeq(doc, i, k - 1) \o rest.content,
                  parts |-> <<SubSeq(doc, k + 1, j - 1)>> \o rest.parts]

\* SCRIPT_NAME_REGEX.match(part): ^([\w\-\./]+?),([\w]+?)$
ScriptNameMatch(part) ==
    LET commas == {i \in 1..Len(part) : part[i] = ","}
    IN  IF commas = {} THEN [ok |-> FALSE, comp_cls_hash |-> <<>>, id |-> <<>>]
        ELSE LET p == Min(commas)
                 h == SubSeq(part, 1, p - 1)
                 d == SubSeq(part, p + 1, Len(part))
             IN  IF /\ h # <<>> /\ \A i \in 1..Len(h) : h[i] \in HashChars
                    /\ d # <<>> /\ \A i \in 1..Len(d) : d[i] \in WordChars
                 THEN [ok |-> TRUE, comp_cls_hash |-> h, id |-> d]
                 ELSE [ok |-> FALSE, comp_cls_hash |-> <<>>, id |-> <<>>]

\* the loop of lines 443-454 without the test of line 450: no deduplication
RECURSIVE CompHashesKeepAll(_, _)
CompHashesKeepAll(parts, seen) ==
    IF parts = <<>> THEN [ok |-> TRUE, comp_hashes |-> <<>>]
    ELSE LET part_match == ScriptNameMatch(Head(parts))
         IN  IF ~part_match.ok THEN [ok |-> FALSE, comp_hashes |-> <<>>]
             ELSE LET rest == CompHashesKeepAll(Tail(parts), seen)
                  IN  [ok |-> rest.ok,
                       comp_hashes |-> IF rest.ok
                                        THEN <<part_match.comp_cls_hash>> \o rest.comp_hashes
                                        ELSE <<>>]

\* the loop of lines 443-454 with a part that does not match passed over
RECURSIVE CompHashesSkipsMalformed(_, _)
CompHashesSkipsMalformed(parts, seen) ==
    IF parts = <<>> THEN [ok |-> TRUE, comp_hashes |-> <<>>]
    ELSE LET part_match == ScriptNameMatch(Head(parts))
         IN  IF ~part_match.ok THEN CompHashesSkipsMalformed(Tail(parts), seen)
             ELSE IF part_match.comp_cls_hash \in seen
             THEN CompHashesSkipsMalformed(Tail(parts), seen)
             ELSE LET rest == CompHashesSkipsMalformed(Tail(parts),
                                                      seen \cup {part_match.comp_cls_hash})
                  IN  [ok |-> rest.ok,
                       comp_hashes |-> IF rest.ok
                                        THEN <<part_match.comp_cls_hash>> \o rest.comp_hashes
                                        ELSE <<>>]

\* the loop of lines 443-454: the class hashes of the parts, each once, in
\* the order of first appearance; a part that does not match raises
RECURSIVE CompHashes(_, _)
CompHashes(parts, seen) ==
    IF parts = <<>> THEN [ok |-> TRUE, comp_hashes |-> <<>>]
    ELSE LET part_match == ScriptNameMatch(Head(parts))
         IN  IF ~part_match.ok THEN [ok |-> FALSE, comp_hashes |-> <<>>]
             ELSE IF part_match.comp_cls_hash \in seen
             THEN CompHashes(Tail(parts), seen)
             ELSE LET rest == CompHashes(Tail(parts), seen \cup {part_match.comp_cls_hash})
                  IN  [ok |-> rest.ok,
                       comp_hashes |-> IF rest.ok
                                        THEN <<part_match.comp_cls_hash>> \o rest.comp_hashes
                                        ELSE <<>>]

\* the (class hash, component id) pairs of the parts, as line 444 reads them
RECURSIVE PartPairs(_)
PartPairs(parts) ==
    IF parts = <<>> THEN <<>>
    ELSE <<ScriptNameMatch(Head(parts))>> \o PartPairs(Tail(parts))

-----------------------------------------------------------------------------
(* Media tags *)

\* the attribute that holds the URL: <script src="..."> vs <link href="...">
UrlAttr(script_type) == IF script_type = "js" THEN "src=\"" ELSE "href=\""

\* SoupNode.from_fragment(tag.strip())[0].get_attr(attr, None): the text
\* between the attribute's opening and its closing quote, None without it
Quote == "\""
GetAttr(tag, attr) ==
    LET at == {i \in 1..Len(tag) : tag[i] = attr}
    IN  IF at = {} THEN None
        ELSE LET i == Min(at)
                 ends == {j \in (i + 1)..Len(tag) : tag[j] = Quote}
             IN  IF ends = {} THEN None ELSE SubSeq(tag, i + 1, Min(ends) - 1)

\* Media.render_js / Media.render_css of django.forms: one tag per URL
ScriptSrcTag(url) == <<"<script ", "src=\"">> \o url \o <<Quote, "></script>">>
LinkHrefTag(url) == <<"<link ", "href=\"">> \o url \o <<Quote, " media=\"all\" rel=\"stylesheet\">">>

\* lines 569-592 with line 585-586 dropped: a later tag replaces the first
RECURSIVE DedupeTagsLastWins(_, _, _, _)
DedupeTagsLastWins(script_type, tags, urls, tags_by_url) ==
    IF tags = <<>>
    THEN [ok |-> TRUE, tags |-> [i \in 1..Len(urls) |-> tags_by_url[urls[i]]], urls |-> urls]
    ELSE LET tag == Head(tags)
             maybe_url == GetAttr(Strip(tag), UrlAttr(script_type))
         IN  IF ~IsNonemptyStr(maybe_url)
             THEN [ok |-> FALSE, tags |-> <<>>, urls |-> <<>>]
             ELSE DedupeTagsLastWins(script_type, Tail(tags),
                                     IF maybe_url \in DOMAIN tags_by_url
                                     THEN urls ELSE Append(urls, maybe_url),
                                     (maybe_url :> tag) @@ tags_by_url)

\* the loop of lines 569-592 of _postprocess_media_tags
RECURSIVE DedupeTags(_, _, _, _)
DedupeTags(script_type, tags, urls, tags_by_url) ==
    IF tags = <<>>
    THEN [ok |-> TRUE, tags |-> [i \in 1..Len(urls) |-> tags_by_url[urls[i]]], urls |-> urls]
    ELSE LET tag == Head(tags)
             maybe_url == GetAttr(Strip(tag), UrlAttr(script_type))
         IN  IF ~IsNonemptyStr(maybe_url)
             THEN [ok |-> FALSE, tags |-> <<>>, urls |-> <<>>]
             ELSE IF maybe_url \in DOMAIN tags_by_url
             THEN DedupeTags(script_type, Tail(tags), urls, tags_by_url)
             ELSE DedupeTags(script_type, Tail(tags), Append(urls, maybe_url),
                             (maybe_url :> tag) @@ tags_by_url)

PostprocessMediaTagsLastWins(script_type, tags) ==
    DedupeTagsLastWins(script_type, tags, <<>>, EmptyCache)

\* _postprocess_media_tags
PostprocessMediaTags(script_type, tags) ==
    DedupeTags(script_type, tags, <<>>, EmptyCache)

-----------------------------------------------------------------------------
(* 3. Aggregation: from the class hashes to the JS and CSS of a document  *)

\* Component.Media.js / Component.Media.css of the class, as absolute URLs
ClsMediaJs(cls) ==
    CASE cls = "A" -> <<<<"/u2.js">>>>
      [] OTHER     -> <<>>

ClsMediaCss(cls) ==
    CASE cls = "A" -> <<<<"/u1.css">>>>
      [] OTHER     -> <<>>

RenderTypes == {"document", "fragment"}

\* the symbols of URLs in the order of their first characters' codes
UrlSymbolOrder ==
    <<"/cache/", "/static/django_components/django_components.min.js", "/u1.css", "/u2.js",
      ".", "0", "A", "B", "C", "D", "E", "F", "Z", "_", "css", "js">>
SymRank(sym) == CHOOSE i \in 1..Len(UrlSymbolOrder) : UrlSymbolOrder[i] = sym

\* a < b for str
RECURSIVE StrLess(_, _)
StrLess(a, b) ==
    IF b = <<>> THEN FALSE
    ELSE IF a = <<>> THEN TRUE
    ELSE IF Head(a) = Head(b) THEN StrLess(Tail(a), Tail(b))
    ELSE SymRank(Head(a)) < SymRank(Head(b))

\* sorted(list of str)
RECURSIVE Sorted(_)
Sorted(seq) ==
    IF seq = <<>> THEN <<>>
    ELSE LET i == CHOOSE i \in 1..Len(seq) : \A j \in 1..Len(seq) : ~StrLess(seq[j], seq[i])
         IN  <<seq[i]>> \o Sorted(SubSeq(seq, 1, i - 1) \o SubSeq(seq, i + 1, Len(seq)))

\* `needle in text` for a one-symbol needle
Contains(text, needle) == \E i \in 1..Len(text) : text[i] = needle

\* get_script_content
GetScriptContent(data, script_type, cls) ==
    CacheGet(data, GenCacheKey(HashCompCls(cls), script_type))

\* _get_script_tag: the literal tag around the cached content.  The cached
\* content may be None, and `"</script" in None` raises TypeError.
GetScriptTag(data, script_type, cls) ==
    LET script == GetScriptContent(data, script_type, cls)
    IN  IF script = None THEN [ok |-> FALSE, err |-> "TypeError", tag |-> <<>>]
        ELSE IF script_type = "js"
        THEN IF Contains(script, "</script")
             THEN [ok |-> FALSE, err |-> "RuntimeError: end tag", tag |-> <<>>]
             ELSE [ok |-> TRUE, err |-> "", tag |-> <<"<script>">> \o script \o <<"</script>">>]
        ELSE IF Contains(script, "</style")
             THEN [ok |-> FALSE, err |-> "RuntimeError: end tag", tag |-> <<>>]
             ELSE [ok |-> TRUE, err |-> "", tag |-> <<"<style>">> \o script \o <<"</style>">>]

\* get_script_url: reverse(CACHE_ENDPOINT_NAME, ...) under urlpatterns
GetScriptUrl(script_type, cls) == <<"/cache/">> \o HashCompCls(cls) \o <<".", script_type>>

NoTagsAndUrls ==
    [ok |-> TRUE, err |-> "",
     to_load_js_urls |-> <<>>, to_load_css_urls |-> <<>>,
     inlined_js_tags |-> <<>>, inlined_css_tags |-> <<>>,
     loaded_js_urls |-> <<>>, loaded_css_urls |-> <<>>]

\* _prepare_tags_and_urls: the loop of lines 612-636, acc holding the six lists
RECURSIVE PrepareTagsAndUrls(_, _, _, _, _)
PrepareTagsAndUrls(data, reg, comp_hashes, type, acc) ==
    IF comp_hashes = <<>> THEN acc
    ELSE LET h == Head(comp_hashes) IN
         IF h \notin DOMAIN reg THEN [acc EXCEPT !.ok = FALSE, !.err = "KeyError"]
         ELSE LET cls == reg[h]
                  hasJs == IsNonemptyStr(ClsJs(cls))
                  hasCss == IsNonemptyStr(ClsCss(cls))
              IN  IF type = "document"
                  THEN LET js == IF hasJs THEN GetScriptTag(data, "js", cls)
                                 ELSE [ok |-> TRUE, err |-> "", tag |-> <<>>]
                           css == IF hasCss THEN GetScriptTag(data, "css", cls)
                                  ELSE [ok |-> TRUE, err |-> "", tag |-> <<>>]
                       IN  IF ~js.ok THEN [acc EXCEPT !.ok = FALSE, !.err = js.err]
                           ELSE IF ~css.ok THEN [acc EXCEPT !.ok = FALSE, !.err = css.err]
                           ELSE PrepareTagsAndUrls(data, reg, Tail(comp_hashes), type,
                                  [acc EXCEPT
                                     !.inlined_js_tags = IF hasJs THEN Append(@, js.tag) ELSE @,
                                     !.loaded_js_urls =
                                        IF hasJs THEN Append(@, GetScriptUrl("js", cls)) ELSE @,
                                     !.inlined_css_tags = IF hasCss THEN Append(@, css.tag) ELSE @,
                                     !.loaded_css_urls =
                                        IF hasCss THEN Append(@, GetScriptUrl("css", cls)) ELSE @])
                  ELSE PrepareTagsAndUrls(data, reg, Tail(comp_hashes), type,
                         [acc EXCEPT
                            !.to_load_js_urls =
                               IF hasJs THEN Append(@, GetScriptUrl("js", cls)) ELSE @,
                            !.to_load_css_urls =
                               IF hasCss THEN Append(@, GetScriptUrl("css", cls)) ELSE @])

\* Media.render_js / Media.render_css of a Media object: its URLs, each once
RECURSIVE Unique(_)
Unique(seq) ==
    IF seq = <<>> THEN <<>>
    ELSE LET init == Unique(SubSeq(seq, 1, Len(seq) - 1))
             last == seq[Len(seq)]
         IN  IF \E i \in 1..Len(init) : init[i] = last THEN init ELSE Append(init, last)
MediaRenderJs(urls) == LET u == Unique(urls) IN [i \in 1..Len(u) |-> ScriptSrcTag(u[i])]
MediaRenderCss(urls) == LET u == Unique(urls) IN [i \in 1..Len(u) |-> LinkHrefTag(u[i])]

\* base64.b64encode(tag.encode()).decode(): the text is carried inside an
\* opaque wrapper, none of it is markup of the document
B64(text) == <<"b64(">> \o text \o <<")">>
\* json.dumps of one list of map_to_base64
JsonList(key, lst) == <<key, "[">> \o Concat([i \in 1..Len(lst) |-> B64(lst[i])]) \o <<"]">>

ManifestOpen == "<script type=\"application/json\" data-djc>"

\* _gen_exec_script without the early return of line 706-707
GenExecScriptAlways(to_load_js_tags, to_load_css_tags, loaded_js_urls, loaded_css_urls) ==
    <<ManifestOpen, "{">>
    \o JsonList("loadedCssUrls", loaded_css_urls)
    \o JsonList("loadedJsUrls", loaded_js_urls)
    \o JsonList("toLoadCssTags", to_load_css_tags)
    \o JsonList("toLoadJsTags", to_load_js_tags)
    \o <<"}", "</script>">>

\* _gen_exec_script: None when the four lists are empty
GenExecScript(to_load_js_tags, to_load_css_tags, loaded_js_urls, loaded_css_urls) ==
    IF to_load_js_tags = <<>> /\ to_load_css_tags = <<>>
       /\ loaded_css_urls = <<>> /\ loaded_js_urls = <<>>
    THEN None
    ELSE <<ManifestOpen, "{">>
         \o JsonList("loadedCssUrls", loaded_css_urls)
         \o JsonList("loadedJsUrls", loaded_js_urls)
         \o JsonList("toLoadCssTags", to_load_css_tags)
         \o JsonList("toLoadJsTags", to_load_js_tags)
         \o <<"}", "</script>">>

CoreScriptUrl == <<"/static/django_components/django_components.min.js">>

DepFailure(err) ==
    [ok |-> FALSE, err |-> err, content |-> <<>>, js |-> <<>>, css |-> <<>>,
     comp_hashes |-> <<>>,
     loaded_css_urls |-> <<>>, loaded_js_urls |-> <<>>,
     to_load_css_tags |-> <<>>, to_load_js_tags |-> <<>>,
     inlined_css_tags |-> <<>>, inlined_js_tags |-> <<>>]

\* _process_dep_declarations with the URLs of the media marked as loaded in a
\* fragment instead of in a document
FinalTagsLoadedInFragment(content, comp_hashes, prep, css, js, type) ==
    IF ~css.ok \/ ~js.ok THEN DepFailure("RuntimeError: missing attribute")
    ELSE
    LET loaded_css_urls ==
            Sorted(prep.loaded_css_urls \o (IF type = "fragment" THEN css.urls ELSE <<>>))
        loaded_js_urls ==
            Sorted(prep.loaded_js_urls \o (IF type = "fragment" THEN js.urls ELSE <<>>))
        exec_script ==
            GenExecScript(IF type = "fragment" THEN js.tags ELSE <<>>,
                          IF type = "fragment" THEN css.tags ELSE <<>>,
                          loaded_js_urls, loaded_css_urls)
        core_script_tags ==
            IF type = "document" THEN MediaRenderJs(<<CoreScriptUrl>>) ELSE <<>>
        final_script_tags ==
            Concat(core_script_tags)
            \o (IF exec_script # None THEN exec_script ELSE <<>>)
            \o (IF type = "document" THEN Concat(js.tags) ELSE <<>>)
            \o Concat(prep.inlined_js_tags)
        final_css_tags == Concat(prep.inlined_css_tags) \o Concat(css.tags)
    IN  [ok |-> TRUE, err |-> "", content |-> content,
         js |-> final_script_tags, css |-> final_css_tags, comp_hashes |-> comp_hashes,
         loaded_css_urls |-> loaded_css_urls, loaded_js_urls |-> loaded_js_urls,
         to_load_css_tags |-> css.tags, to_load_js_tags |-> js.tags,
         inlined_css_tags |-> prep.inlined_css_tags,
         inlined_js_tags |-> prep.inlined_js_tags]

\* _process_dep_declarations with the inlined js in front of the tags of Media.js
FinalTagsInlinedFirst(content, comp_hashes, prep, css, js, type) ==
    IF ~css.ok \/ ~js.ok THEN DepFailure("RuntimeError: missing attribute")
    ELSE
    LET loaded_css_urls ==
            Sorted(prep.loaded_css_urls \o (IF type = "document" THEN css.urls ELSE <<>>))
        loaded_js_urls ==
            Sorted(prep.loaded_js_urls \o (IF type = "document" THEN js.urls ELSE <<>>))
        exec_script ==
            GenExecScript(IF type = "fragment" THEN js.tags ELSE <<>>,
                          IF type = "fragment" THEN css.tags ELSE <<>>,
                          loaded_js_urls, loaded_css_urls)
        core_script_tags ==
            IF type = "document" THEN MediaRenderJs(<<CoreScriptUrl>>) ELSE <<>>
        final_script_tags ==
            Concat(core_script_tags)
            \o (IF exec_script # None THEN exec_script ELSE <<>>)
            \o Concat(prep.inlined_js_tags)
            \o (IF type = "document" THEN Concat(js.tags) ELSE <<>>)
        final_css_tags == Concat(prep.inlined_css_tags) \o Concat(css.tags)
    IN  [ok |-> TRUE, err |-> "", content |-> content,
         js |-> final_script_tags, css |-> final_css_tags, comp_hashes |-> comp_hashes,
         loaded_css_urls |-> loaded_css_urls, loaded_js_urls |-> loaded_js_urls,
         to_load_css_tags |-> css.tags, to_load_js_tags |-> js.tags,
         inlined_css_tags |-> prep.inlined_css_tags,
         inlined_js_tags |-> prep.inlined_js_tags]

\* _process_dep_declarations, lines 498-554: the manifest and the final tags
\* from the prepared lists (prep) and the de-duplicated media tags (css, js)
FinalTags(content, comp_hashes, prep, css, js, type) ==
    IF ~css.ok \/ ~js.ok THEN DepFailure("RuntimeError: missing attribute")
    ELSE
    LET loaded_css_urls ==
            Sorted(prep.loaded_css_urls \o (IF type = "document" THEN css.urls ELSE <<>>))
        loaded_js_urls ==
            Sorted(prep.loaded_js_urls \o (IF type = "document" THEN js.urls ELSE <<>>))
        exec_script ==
            GenExecScript(IF type = "fragment" THEN js.tags ELSE <<>>,
                          IF type = "fragment" THEN css.tags ELSE <<>>,
                          loaded_js_urls, loaded_css_urls)
        core_script_tags ==
            IF type = "document" THEN MediaRenderJs(<<CoreScriptUrl>>) ELSE <<>>
        final_script_tags ==
            Concat(core_script_tags)
            \o (IF exec_script # None THEN exec_script ELSE <<>>)
            \o (IF type = "document" THEN Concat(js.tags) ELSE <<>>)
            \o Concat(prep.inlined_js_tags)
        final_css_tags == Concat(prep.inlined_css_tags) \o Concat(css.tags)
    IN  [ok |-> TRUE, err |-> "", content |-> content,
         js |-> final_script_tags, css |-> final_css_tags, comp_hashes |-> comp_hashes,
         loaded_css_urls |-> loaded_css_urls, loaded_js_urls |-> loaded_js_urls,
         to_load_css_tags |-> css.tags, to_load_js_tags |-> js.tags,
         inlined_css_tags |-> prep.inlined_css_tags,
         inlined_js_tags |-> prep.inlined_js_tags]

\* _process_dep_declarations, lines 466-496: all_medias, the classes' media
\* first, then the inlined scripts to fetch, and their de-duplication
MediaOfClasses(reg, content, comp_hashes, prep, type) ==
    IF ~prep.ok THEN DepFailure(prep.err)
    ELSE FinalTags(content, comp_hashes, prep,
            PostprocessMediaTags("css",
                Concat([i \in 1..Len(comp_hashes) |->
                           MediaRenderCss(ClsMediaCss(reg[comp_hashes[i]]))])
                \o MediaRenderCss(prep.to_load_css_urls)),
            PostprocessMediaTags("js",
                Concat([i \in 1..Len(comp_hashes) |->
                           MediaRenderJs(ClsMediaJs(reg[comp_hashes[i]]))])
                \o MediaRenderJs(prep.to_load_js_urls)),
            type)

\* _process_dep_declarations, lines 436-464: the class hashes of the markers
DepsOfParts(data, reg, content, hs, type) ==
    IF ~hs.ok THEN DepFailure("RuntimeError: Malformed dependencies data")
    ELSE MediaOfClasses(reg, content, hs.comp_hashes,
                        PrepareTagsAndUrls(data, reg, hs.comp_hashes, type, NoTagsAndUrls),
                        type)

DepsOfComments(data, reg, sub, type) ==
    DepsOfParts(data, reg, sub.content, CompHashes(sub.parts, {}), type)

\* _process_dep_declarations
ProcessDepDeclarations(data, reg, content, type) ==
    DepsOfComments(data, reg, SubComments(content, 1), type)

\* CSS_DEPENDENCY_PLACEHOLDER, JS_DEPENDENCY_PLACEHOLDER
CssPlaceholder == "<link name=\"CSS_PLACEHOLDER\">"
JsPlaceholder == "<script name=\"JS_PLACEHOLDER\"></script>"

\* PLACEHOLDER_REGEX.sub(on_replace_match, content_)
SubPlaceholders(content, css_replacement, js_replacement) ==
    Concat([i \in 1..Len(content) |->
              IF content[i] = CssPlaceholder THEN css_replacement
              ELSE IF content[i] = JsPlaceholder THEN js_replacement
              ELSE <<content[i]>>])

\* the text with `extra` put in front of the first occurrence of `sym`
InsertBefore(text, sym, extra) ==
    LET at == Min({i \in 1..Len(text) : text[i] = sym})
    IN  SubSeq(text, 1, at - 1) \o extra \o SubSeq(text, at, Len(text))

\* _insert_js_css_to_default_locations: CSS to the end of <head>, JS to the
\* end of <body>; None when the text has neither (or nothing is to insert)
InsertJsCssToDefaultLocations(html_content, js_content, css_content) ==
    IF html_content = <<>> THEN None
    ELSE LET toHead == css_content # None /\ Contains(html_content, "</head>")
             toBody == js_content # None /\ Contains(html_content, "</body>")
             withCss == IF toHead THEN InsertBefore(html_content, "</head>", css_content)
                        ELSE html_content
             withJs == IF toBody THEN InsertBefore(withCss, "</body>", js_content)
                       ELSE withCss
         IN  IF toHead \/ toBody THEN withJs ELSE None

\* render_dependencies with the placeholders of a fragment filled as well
LocateDependenciesFillsFragment(dep, type) ==
    IF ~dep.ok THEN [ok |-> FALSE, err |-> dep.err, out |-> <<>>]
    ELSE
    LET did_find_css_placeholder == Contains(dep.content, CssPlaceholder)
        did_find_js_placeholder == Contains(dep.content, JsPlaceholder)
        replaced == SubPlaceholders(dep.content,
                                    dep.css, dep.js)
        maybe_transformed ==
            IF type = "document" /\ (~did_find_js_placeholder \/ ~did_find_css_placeholder)
            THEN InsertJsCssToDefaultLocations(
                    replaced,
                    IF did_find_js_placeholder THEN None ELSE dep.js,
                    IF did_find_css_placeholder THEN None ELSE dep.css)
            ELSE None
        located == IF maybe_transformed # None THEN maybe_transformed ELSE replaced
    IN  [ok |-> TRUE, err |-> "",
         out |-> IF type = "fragment" THEN located \o dep.js ELSE located]

\* render_dependencies with the default places used whatever was found
LocateDependenciesAlwaysDefault(dep, type) ==
    IF ~dep.ok THEN [ok |-> FALSE, err |-> dep.err, out |-> <<>>]
    ELSE
    LET did_find_css_placeholder == Contains(dep.content, CssPlaceholder)
        did_find_js_placeholder == Contains(dep.content, JsPlaceholder)
        replaced == SubPlaceholders(dep.content,
                                    IF type = "document" THEN dep.css ELSE <<>>,
                                    IF type = "document" THEN dep.js ELSE <<>>)
        maybe_transformed ==
            IF type = "document"
            THEN InsertJsCssToDefaultLocations(replaced, dep.js, dep.css)
            ELSE None
        located == IF maybe_transformed # None THEN maybe_transformed ELSE replaced
    IN  [ok |-> TRUE, err |-> "",
         out |-> IF type = "fragment" THEN located \o dep.js ELSE located]

\* render_dependencies with the default places skipped once any placeholder is found
LocateDependenciesSkipsBoth(dep, type) ==
    IF ~dep.ok THEN [ok |-> FALSE, err |-> dep.err, out |-> <<>>]
    ELSE
    LET did_find_css_placeholder == Contains(dep.content, CssPlaceholder)
        did_find_js_placeholder == Contains(dep.content, JsPlaceholder)
        replaced == SubPlaceholders(dep.content,
                                    IF type = "document" THEN dep.css ELSE <<>>,
                                    IF type = "document" THEN dep.js ELSE <<>>)
        maybe_transformed ==
            IF type = "document" /\ ~did_find_js_placeholder /\ ~did_find_css_placeholder
            THEN InsertJsCssToDefaultLocations(
                    replaced,
                    IF did_find_js_placeholder THEN None ELSE dep.js,
                    IF did_find_css_placeholder THEN None ELSE dep.css)
            ELSE None
        located == IF maybe_transformed # None THEN maybe_transformed ELSE replaced
    IN  [ok |-> TRUE, err |-> "",
         out |-> IF type = "fragment" THEN located \o dep.js ELSE located]

\* render_dependencies, lines 330-388: the tags go to the placeholders or to
\* the default places, the JS of a fragment to its end
LocateDependencies(dep, type) ==
    IF ~dep.ok THEN [ok |-> FALSE, err |-> dep.err, out |-> <<>>]
    ELSE
    LET did_find_css_placeholder == Contains(dep.content, CssPlaceholder)
        did_find_js_placeholder == Contains(dep.content, JsPlaceholder)
        replaced == SubPlaceholders(dep.content,
                                    IF type = "document" THEN dep.css ELSE <<>>,
                                    IF type = "document" THEN dep.js ELSE <<>>)
        maybe_transformed ==
            IF type = "document" /\ (~did_find_js_placeholder \/ ~did_find_css_placeholder)
            THEN InsertJsCssToDefaultLocations(
                    replaced,
                    IF did_find_js_placeholder THEN None ELSE dep.js,
                    IF did_find_css_placeholder THEN None ELSE dep.css)
            ELSE None
        located == IF maybe_transformed # None THEN maybe_transformed ELSE replaced
    IN  [ok |-> TRUE, err |-> "",
         out |-> IF type = "fragment" THEN located \o dep.js ELSE located]

\* render_dependencies
RenderDependencies(data, reg, content, type) ==
    IF type \notin RenderTypes THEN [ok |-> FALSE, err |-> "ValueError", out |-> <<>>]
    ELSE LocateDependencies(ProcessDepDeclarations(data, reg, content, type), type)

-----------------------------------------------------------------------------
(* SpecAgg: the pure steps of aggregation on inputs drawn from bounded     *)
(* sets.  A document is put together by embedding one marker after the     *)
(* other, each in front of its component's HTML, and is then scanned;      *)
(* a list of media tags is post-processed.                                 *)

\* one character of each kind the class hash pattern allows
HashCharSample == {"a", "-", ".", "/"}
IdCharSample == {"a", "1"}

\* the component id of the i-th component of a document
NodeId(i) == <<"n">> \o [k \in 1..i |-> "1"]

\* markers with any class hash and component id of the allowed characters
FreeMarkers ==
    {<<[comp_cls_hash |-> h, component_id |-> d]>> :
        h \in SeqsOf(HashCharSample, 1, MaxNameLen), d \in SeqsOf(IdCharSample, 1, MaxNameLen)}

\* the markers of up to MaxMarkers rendered components of the classes A, B, C
ClassMarkers ==
    {[i \in 1..Len(cs) |-> [comp_cls_hash |-> HashCompCls(cs[i]), component_id |-> NodeId(i)]] :
        cs \in SeqsOf({"A", "B", "C"}, 0, MaxMarkers)}

Urls == {<<"/u1">>, <<"/u2">>}

\* the tags a Media class renders for a URL (in two forms), a tag with
\* surrounding whitespace, and a tag without the URL attribute
MediaTagPool(script_type) ==
    IF script_type = "js"
    THEN {ScriptSrcTag(u) : u \in Urls}
         \cup {<<"<script ", "src=\"">> \o u \o <<Quote, " defer", "></script>">> : u \in Urls}
         \cup {<<" ", "<script ", "src=\"", "/u1", Quote, " async", "></script>", " ">>,
               <<"<script>", "x", "</script>">>}
    ELSE {LinkHrefTag(u) : u \in Urls}
         \cup {<<"<link ", "href=\"">> \o u \o <<Quote, ">">> : u \in Urls}
         \cup {<<" ", "<link ", "href=\"", "/u1", Quote, " media=\"print\">", " ">>,
               <<"<style>", "y", "</style>">>}

AggInputs ==
    {[op |-> "scan", markers |-> ms, html |-> h, script_type |-> "none", tags |-> <<>>] :
        ms \in FreeMarkers \cup ClassMarkers, h \in {<<>>, <<"t">>}}
    \cup
    {[op |-> "media", markers |-> <<>>, html |-> <<>>, script_type |-> t, tags |-> ts] :
        t \in ScriptTypes, ts \in {<<>>}}
    \cup
    UNION {{[op |-> "media", markers |-> <<>>, html |-> <<>>, script_type |-> t, tags |-> ts] :
        ts \in SeqsOf(MediaTagPool(t), 1, MaxTags)} : t \in ScriptTypes}

NoAggOutput ==
    [stage |-> "start", embedded |-> 0, doc |-> <<>>, content |-> <<>>, pairs |-> <<>>,
     ok |-> TRUE, comp_hashes |-> <<>>, tags |-> <<>>, urls |-> <<>>]

UnchangedButAgg ==
    UNCHANGED <<cache, registry, renderStack, callStack, exc, result, lastExit, aggLog,
                response, writes, rendered, threads, pin>>

\* One more component's output joins the document: its marker, then its HTML
AggEmbed ==
    /\ pin.op = "scan"
    /\ pout.stage = "start"
    /\ pout.embedded < Len(pin.markers)
    /\ LET mk == pin.markers[pout.embedded + 1]
       IN  pout' = [pout EXCEPT
                      !.embedded = @ + 1,
                      !.doc = @ \o InsertComponentComment(pin.html, mk.comp_cls_hash,
                                                          mk.component_id)]
    /\ UnchangedButAgg

\* Lines 427-454 of _process_dep_declarations on the finished document
AggScan ==
    /\ pin.op = "scan"
    /\ pout.stage = "start"
    /\ pout.embedded = Len(pin.markers)
    /\ LET sub == SubComments(pout.doc, 1)
           hs == CompHashes(sub.parts, {})
       IN  pout' = [pout EXCEPT
                      !.stage = "scanned",
                      !.content = sub.content,
                      !.pairs = PartPairs(sub.parts),
                      !.ok = hs.ok,
                      !.comp_hashes = hs.comp_hashes]
    /\ UnchangedButAgg

\* _postprocess_media_tags on a list of tags
AggMedia ==
    /\ pin.op = "media"
    /\ pout.stage = "start"
    /\ LET r == PostprocessMediaTags(pin.script_type, pin.tags)
       IN  pout' = [pout EXCEPT !.stage = "tags", !.ok = r.ok, !.tags = r.tags,
                                !.urls = r.urls]
    /\ UnchangedButAgg

InitAgg ==
    /\ InitIdle!1 /\ InitIdle!2 /\ InitIdle!3 /\ InitIdle!4 /\ InitIdle!5
    /\ InitIdle!6 /\ InitIdle!7 /\ InitIdle!8 /\ InitIdle!9 /\ InitIdle!10
    /\ InitIdle!11 /\ InitIdle!12
    /\ pin \in AggInputs
    /\ pout = NoAggOutput

NextAgg == AggEmbed \/ AggScan \/ AggMedia

SpecAgg == InitAgg /\ [][NextAgg]_vars

-----------------------------------------------------------------------------
(* SpecRace: concurrent first renders of one class, each thread inside     *)
(* lines 720-721 of _render_impl.  The threads share comp_media_cache;     *)
(* has() and set() are atomic, a thread may be preempted between them.     *)
(* The content a thread hands in is its instance's own js / css, which is  *)
(* the class attribute unless the instance overrides it.                   *)

InstanceJs(cls) == {ClsJs(cls), <<"z">>}
InstanceCss(cls) == {ClsCss(cls), <<"w">>}

UnchangedButRace ==
    UNCHANGED <<registry, renderStack, callStack, exc, result, lastExit, aggLog,
                response, rendered, pin, pout>>

\* cache_inlined_js up to the answer of _is_script_in_cache (lines 151-156)
RaceJsCheck(t) ==
    /\ threads[t].pc = "js_check"
    /\ threads' = [threads EXCEPT ![t].pc =
                     IF ~IsNonemptyStr(ClsJs(threads[t].cls)) THEN "css_check"
                     ELSE IF ~IsScriptInCache(cache, threads[t].cls, "js") THEN "js_set"
                     ELSE "css_check"]
    /\ UNCHANGED <<cache, writes>>
    /\ UnchangedButRace

\* _cache_script of cache_inlined_js (lines 157-161)
RaceJsSet(t) ==
    /\ threads[t].pc = "js_set"
    /\ cache' = CacheScript(cache, threads[t].cls, OrEmpty(threads[t].js), "js")
    /\ writes' = Wrote(cache, cache', writes, OrEmpty(threads[t].js))
    /\ threads' = [threads EXCEPT ![t].pc = "css_check"]
    /\ UnchangedButRace

\* cache_inlined_css up to the answer of _is_script_in_cache (lines 165-169)
RaceCssCheck(t) ==
    /\ threads[t].pc = "css_check"
    /\ threads' = [threads EXCEPT ![t].pc =
                     IF ~IsNonemptyStr(ClsJs(threads[t].cls)) THEN "done"
                     ELSE IF ~IsScriptInCache(cache, threads[t].cls, "css") THEN "css_set"
                     ELSE "done"]
    /\ UNCHANGED <<cache, writes>>
    /\ UnchangedButRace

\* _cache_script of cache_inlined_css (lines 171-175)
RaceCssSet(t) ==
    /\ threads[t].pc = "css_set"
    /\ cache' = CacheScript(cache, threads[t].cls, OrEmpty(threads[t].css), "css")
    /\ writes' = Wrote(cache, cache', writes, OrEmpty(threads[t].css))
    /\ threads' = [threads EXCEPT ![t].pc = "done"]
    /\ UnchangedButRace

InitRace ==
    /\ InitIdle!1 /\ InitIdle!2 /\ InitIdle!3 /\ InitIdle!4 /\ InitIdle!5
    /\ InitIdle!6 /\ InitIdle!7 /\ InitIdle!8 /\ InitIdle!9 /\ InitIdle!10
    /\ InitIdle!11 /\ InitIdle!13 /\ InitIdle!14
    /\ \E cls \in Classes :
          threads \in [1..MaxThreads ->
              {[cls |-> cls, js |-> j, css |-> c, pc |-> "js_check"] :
                  j \in InstanceJs(cls), c \in InstanceCss(cls)}]

NextRace ==
    \E t \in 1..MaxThreads :
        RaceJsCheck(t) \/ RaceJsSet(t) \/ RaceCssCheck(t) \/ RaceCssSet(t)

SpecRace == InitRace /\ [][NextRace]_vars

-----------------------------------------------------------------------------
(* Spec: one thread renders component trees, one tree after the other, and  *)
(* the endpoint is asked between the renders.  A top-level render is a call  *)
(* of render on the class, which makes a new instance, or on the instance    *)
(* the caller holds; a {% component %} tag makes a new instance for every    *)
(* render.                                                                  *)

\* frames that failed renders may leave on the held instance's stack
MaxFrames == 1

\* the nodes of a template: text, and {% component %} tags with their node_id
Text(text) == [kind |-> "text", text |-> text, cls |-> "", node_id |-> <<>>]
ComponentTag(cls, node_id) == [kind |-> "component", text |-> <<>>, cls |-> cls, node_id |-> node_id]

ClsTemplate(cls) ==
    CASE cls = "A" -> <<Text(<<"<head>", "</head>", "<body>">>),
                        ComponentTag("C", <<"n", "1">>),
                        ComponentTag("D", <<"n", "2">>),
                        Text(<<"</body>">>)>>
      [] cls = "B" -> <<Text(<<"b">>), ComponentTag("C", <<"n", "3">>)>>
      [] cls = "C" -> <<Text(<<"c">>), ComponentTag("D", <<"n", "0">>)>>
      [] OTHER     -> <<Text(<<"d">>)>>

\* on_render_after of the classes: B overrides the hook and returns the
\* content with a text added, the others keep the hook of the base class,
\* which returns None
OnRenderAfterOf(cls, content) ==
    IF cls = "B" THEN content \o <<"r">> ELSE None

\* self.name
ComponentName(cls) == cls

\* the class of the instance the caller holds
HeldCls == "C"

\* component_id of the instance the caller holds and of the instance made by
\* a call on the class (gen_id at construction), and of the instances made
\* by the tags (the tag's node_id)
HeldInstance == <<"u", "1">>
NewInstance == <<"u", "2">>
NodeIds == {<<"n", "0">>, <<"n", "1">>, <<"n", "2">>, <<"n", "3">>}
Instances == {HeldInstance, NewInstance} \cup NodeIds

\* RenderStackItem
RenderStackItem(type, render_dependencies) ==
    [type |-> type, render_dependencies |-> render_dependencies, is_filled |-> None]

\* Component.input with the outermost frame read instead of the last one
InputOutermost(render_stack) ==
    IF Len(render_stack) = 0
    THEN [ok |-> FALSE, err |-> "RuntimeError", type |-> "", render_dependencies |-> FALSE]
    ELSE [ok |-> TRUE, err |-> "", type |-> render_stack[1].type,
          render_dependencies |-> render_stack[1].render_dependencies]

\* Component.input on an instance with this _render_stack (of the RenderInput,
\* the type and render_dependencies of the call)
Input(render_stack) ==
    IF Len(render_stack) = 0
    THEN [ok |-> FALSE, err |-> "RuntimeError", type |-> "", render_dependencies |-> FALSE]
    ELSE [ok |-> TRUE, err |-> "", type |-> render_stack[Len(render_stack)].type,
          render_dependencies |-> render_stack[Len(render_stack)].render_dependencies]

\* Component.is_filled with the check of the frame's snapshot left out
IsFilledUnchecked(render_stack) ==
    IF Len(render_stack) = 0
    THEN [ok |-> FALSE, err |-> "RuntimeError: outside of rendering execution", is_filled |-> None]
    ELSE [ok |-> TRUE, err |-> "", is_filled |-> render_stack[Len(render_stack)].is_filled]

\* Component.is_filled on an instance with this _render_stack
IsFilled(render_stack) ==
    IF Len(render_stack) = 0
    THEN [ok |-> FALSE, err |-> "RuntimeError: outside of rendering execution", is_filled |-> None]
    ELSE LET ctx == render_stack[Len(render_stack)]
         IN  IF ctx.is_filled = None
             THEN [ok |-> FALSE, err |-> "RuntimeError: before slots were resolved",
                   is_filled |-> None]
             ELSE [ok |-> TRUE, err |-> "", is_filled |-> ctx.is_filled]

\* one activation of _render: the instance, the arguments, the position
Activation(inst, cls, via, type, render_dependencies, before) ==
    [inst |-> inst, cls |-> cls, via |-> via, pc |-> "validate_inputs",
     type |-> type, rd |-> render_dependencies, before |-> before,
     tpos |-> 1, html |-> <<>>, output |-> <<>>, nested |-> 0]

\* An exception object: which object it is (the one raised in a render, or one
\* raised inside an except block), its type, its _components attribute, and
\* its args: none, a first argument that is not a string, or a message
NewException(id, kind, arg, msg) ==
    [id |-> id, kind |-> kind, components |-> <<>>, arg |-> arg, msg |-> msg]
NoException == NewException("none", "none", "none", <<>>)
NoResult == [status |-> "none", out |-> <<>>]

Top == callStack[Len(callStack)]
At(pc) == callStack # <<>> /\ Top.pc = pc
Goto(pc) == callStack' = [callStack EXCEPT ![Len(callStack)].pc = pc]

\* " > ".join(components)
RECURSIVE JoinPath(_)
JoinPath(components) ==
    IF components = <<>> THEN <<>>
    ELSE IF Len(components) = 1 THEN <<components[1]>>
    ELSE <<components[1], " > ">> \o JoinPath(Tail(components))

\* msg.split("\n", 1)[1]
AfterNewline(msg) ==
    LET at == Min({i \in 1..Len(msg) : msg[i] = "\n"})
    IN  SubSeq(msg, at + 1, Len(msg))

\* the except block of _render with the message taken whole at every level
ErrorInRenderKeepsPrefix(err, name) ==
    IF err.arg = "none"
    THEN NewException("in_except", "IndexError", "str", <<"tuple index out of range">>)
    ELSE IF err.arg # "str"
    THEN IF err.components = <<>>
         THEN NewException("in_except", "TypeError", "str",
                           <<"can only concatenate str (not \"int\") to str">>)
         ELSE NewException("in_except", "AttributeError", "str",
                           <<"'int' object has no attribute 'split'">>)
    ELSE
    LET orig_msg == err.msg
        components == <<name>> \o err.components
    IN  [err EXCEPT !.components = components,
                    !.msg = <<"An error occured while rendering components ">>
                            \o JoinPath(components) \o <<":", "\n">> \o orig_msg]

\* the except block of _render: the error leaves with the path of components.
\* err.args[0] (line 656) raises IndexError when the exception has no
\* argument, prefix + orig_msg (line 664) raises TypeError when the first
\* argument is not a string: the new exception leaves in place of err
ErrorInRender(err, name) ==
    IF err.arg = "none"
    THEN NewException("in_except", "IndexError", "str", <<"tuple index out of range">>)
    ELSE IF err.arg # "str"
    THEN IF err.components = <<>>
         THEN NewException("in_except", "TypeError", "str",
                           <<"can only concatenate str (not \"int\") to str">>)
         ELSE NewException("in_except", "AttributeError", "str",
                           <<"'int' object has no attribute 'split'">>)
    ELSE
    LET orig_msg == IF err.components = <<>> THEN err.msg ELSE AfterNewline(err.msg)
        components == <<name>> \o err.components
    IN  [err EXCEPT !.components = components,
                    !.msg = <<"An error occured while rendering components ">>
                            \o JoinPath(components) \o <<":", "\n">> \o orig_msg]

\* the error after it went through the except blocks of the activations
\* stack[1..n], innermost (the last) first
RECURSIVE ErrorThrough(_, _)
ErrorThrough(err, stack) ==
    IF stack = <<>> THEN err
    ELSE ErrorThrough(ErrorInRender(err, ComponentName(stack[Len(stack)].cls)),
                      SubSeq(stack, 1, Len(stack) - 1))

ExitRecord(act, how, after, out) ==
    [inst |-> act.inst, cls |-> act.cls, via |-> act.via, rd |-> act.rd, how |-> how,
     before |-> act.before, after |-> after, out |-> out]

\* An exception raised in the innermost activation leaves every activation:
\* no frame is popped on the way (line 774 is not reached), each _render
\* adds its name, the instances nobody holds are dropped.
Raised(err) ==
    /\ callStack' = <<>>
    /\ exc' = [thrown |-> err, left |-> ErrorThrough(err, callStack)]
    /\ result' = [status |-> "raised", out |-> <<>>]
    /\ lastExit' = [i \in 1..Len(callStack) |->
                      LET act == callStack[Len(callStack) + 1 - i]
                      IN  ExitRecord(act, "raise", Len(renderStack[act.inst]), <<>>)]
    /\ renderStack' = [i \in Instances |-> IF i = HeldInstance THEN renderStack[i] ELSE <<>>]

UnchangedOthers == UNCHANGED <<writes, threads, pin, pout>>

\* Component.render called by user code, lines 617-622: on the class, which
\* makes the instance, with any arguments; or on the instance the caller
\* holds, with the defaults of type and render_dependencies (lines 572-573)
StartRender(cls, held, type, render_dependencies) ==
    /\ callStack = <<>>
    /\ held => /\ cls = HeldCls
               /\ type = "document" /\ render_dependencies
               /\ Len(renderStack[HeldInstance]) < MaxFrames
    /\ LET comp == IF held THEN HeldInstance ELSE NewInstance
       IN  callStack' = <<Activation(comp, cls, "top", type, render_dependencies,
                                     IF held THEN Len(renderStack[comp]) ELSE 0)>>
    /\ renderStack' = IF held THEN renderStack ELSE [renderStack EXCEPT ![NewInstance] = <<>>]
    /\ rendered' = [rendered EXCEPT !.started = @ \cup {cls}]
    /\ exc' = [thrown |-> NoException, left |-> NoException]
    /\ result' = NoResult
    /\ lastExit' = <<>>
    /\ aggLog' = <<>>
    /\ response' = NoResponse
    /\ UNCHANGED <<cache, registry>>
    /\ UnchangedOthers

\* lines 680-714: _validate_inputs, normalisation, the frame is pushed
ValidateInputs ==
    /\ At("validate_inputs")
    /\ renderStack' = [renderStack EXCEPT
                          ![Top.inst] = Append(@, RenderStackItem(Top.type, Top.rd))]
    /\ Goto("get_context_data")
    /\ UNCHANGED <<cache, registry, exc, result, lastExit, aggLog, response, rendered>>
    /\ UnchangedOthers

\* line 716
GetContextData ==
    /\ At("get_context_data")
    /\ Goto("validate_outputs")
    /\ UNCHANGED <<cache, registry, renderStack, exc, result, lastExit, aggLog, response,
                   rendered>>
    /\ UnchangedOthers

\* line 716, a get_context_data that renders its own instance again:
\* self.render(type="fragment", render_dependencies=False).  The hook sees its
\* input before the call; only an instance somebody holds is rendered so
HookRender ==
    /\ At("get_context_data")
    /\ Top.inst = HeldInstance /\ Top.via = "top"
    /\ Input(renderStack[Top.inst]).ok
    /\ Len(callStack) < MaxDepth
    /\ callStack' = Append(callStack,
                           Activation(Top.inst, Top.cls, "hook", "fragment", FALSE,
                                      Len(renderStack[Top.inst])))
    /\ rendered' = [rendered EXCEPT !.started = @ \cup {Top.cls}]
    /\ UNCHANGED <<cache, registry, renderStack, exc, result, lastExit, aggLog, response>>
    /\ UnchangedOthers

\* line 717
ValidateOutputs ==
    /\ At("validate_outputs")
    /\ Goto("cache_inlined")
    /\ UNCHANGED <<cache, registry, renderStack, exc, result, lastExit, aggLog, response,
                   rendered>>
    /\ UnchangedOthers

\* lines 720-721
CacheInlined ==
    /\ At("cache_inlined")
    /\ cache' = CacheInlinedCss(CacheInlinedJs(cache, Top.cls, OrEmpty(ClsJs(Top.cls))),
                                Top.cls, OrEmpty(ClsCss(Top.cls)))
    /\ Goto("prepare_template")
    /\ UNCHANGED <<registry, renderStack, exc, result, lastExit, aggLog, response, rendered>>
    /\ UnchangedOthers

\* lines 723-728: the template is resolved, is_filled is set on the frame to
\* SlotIsFilled(slots_untyped), the names of the slots the call was given: the
\* call inside get_context_data passes a fill for the slot s, the others none
PrepareTemplate ==
    /\ At("prepare_template")
    /\ renderStack' = [renderStack EXCEPT
                          ![Top.inst][Len(renderStack[Top.inst])].is_filled =
                              <<"SlotIsFilled">> \o (IF Top.via = "hook" THEN <<"s">> ELSE <<>>)]
    /\ Goto("on_render_before")
    /\ UNCHANGED <<cache, registry, exc, result, lastExit, aggLog, response, rendered>>
    /\ UnchangedOthers

\* line 755
OnRenderBefore ==
    /\ At("on_render_before")
    /\ Goto("template")
    /\ UNCHANGED <<cache, registry, renderStack, exc, result, lastExit, aggLog, response,
                   rendered>>
    /\ UnchangedOthers

\* line 758, a text node of the template
TemplateText ==
    /\ At("template")
    /\ Top.tpos <= Len(ClsTemplate(Top.cls))
    /\ ClsTemplate(Top.cls)[Top.tpos].kind = "text"
    /\ callStack' = [callStack EXCEPT
                        ![Len(callStack)].html = @ \o ClsTemplate(Top.cls)[Top.tpos].text,
                        ![Len(callStack)].tpos = @ + 1]
    /\ UNCHANGED <<cache, registry, renderStack, exc, result, lastExit, aggLog, response,
                   rendered>>
    /\ UnchangedOthers

\* ComponentNode.render with the flag of the parent instead of False
TemplateComponentPassesFlag ==
    /\ At("template")
    /\ Top.tpos <= Len(ClsTemplate(Top.cls))
    /\ ClsTemplate(Top.cls)[Top.tpos].kind = "component"
    /\ Len(callStack) < MaxDepth
    /\ LET node == ClsTemplate(Top.cls)[Top.tpos]
       IN  /\ renderStack' = [renderStack EXCEPT ![node.node_id] = <<>>]
           /\ callStack' = Append(callStack,
                                  Activation(node.node_id, node.cls, "component",
                                             "document", Top.rd, 0))
           /\ rendered' = [rendered EXCEPT !.started = @ \cup {node.cls}]
    /\ UNCHANGED <<cache, registry, exc, result, lastExit, aggLog, response>>
    /\ UnchangedOthers

\* line 758, a {% component %} node: ComponentNode.render makes a new
\* instance and calls its _render with render_dependencies=False
TemplateComponent ==
    /\ At("template")
    /\ Top.tpos <= Len(ClsTemplate(Top.cls))
    /\ ClsTemplate(Top.cls)[Top.tpos].kind = "component"
    /\ Len(callStack) < MaxDepth
    /\ LET node == ClsTemplate(Top.cls)[Top.tpos]
       IN  /\ renderStack' = [renderStack EXCEPT ![node.node_id] = <<>>]
           /\ callStack' = Append(callStack,
                                  Activation(node.node_id, node.cls, "component",
                                             "document", FALSE, 0))
           /\ rendered' = [rendered EXCEPT !.started = @ \cup {node.cls}]
    /\ UNCHANGED <<cache, registry, exc, result, lastExit, aggLog, response>>
    /\ UnchangedOthers

\* line 758, the template is rendered to its end
TemplateEnd ==
    /\ At("template")
    /\ Top.tpos > Len(ClsTemplate(Top.cls))
    /\ Goto("on_render_after")
    /\ UNCHANGED <<cache, registry, renderStack, exc, result, lastExit, aggLog, response,
                   rendered>>
    /\ UnchangedOthers

\* lines 761-762 with the value the hook returns dropped
OnRenderAfterIgnored ==
    /\ At("on_render_after")
    /\ Goto("postprocess")
    /\ UNCHANGED <<cache, registry, renderStack, exc, result, lastExit, aggLog, response,
                   rendered>>
    /\ UnchangedOthers

\* lines 761-762: html_content = new_output if new_output is not None else
\* html_content
OnRenderAfter ==
    /\ At("on_render_after")
    /\ LET new_output == OnRenderAfterOf(Top.cls, Top.html)
       IN  callStack' = [callStack EXCEPT
                            ![Len(callStack)].html = IF new_output # None THEN new_output ELSE @,
                            ![Len(callStack)].pc = "postprocess"]
    /\ UNCHANGED <<cache, registry, renderStack, exc, result, lastExit, aggLog, response,
                   rendered>>
    /\ UnchangedOthers

\* postprocess_component_html returns or raises
Postprocessed(deps) ==
    IF deps.ok
    THEN /\ callStack' = [callStack EXCEPT ![Len(callStack)].output = deps.out,
                                           ![Len(callStack)].pc = "pop"]
         /\ UNCHANGED <<renderStack, exc, result, lastExit>>
    ELSE Raised(NewException("raised", deps.err, "str", <<deps.err>>))

\* postprocess_component_html, the text it returns: the marker in front, and
\* the aggregation when render_dependencies is set
PostprocessComponentHtml(data, mapping, cls, component_id, html_content, type, rd) ==
    IF rd
    THEN RenderDependencies(data, mapping,
                            InsertComponentComment(html_content, HashCompCls(cls), component_id),
                            type)
    ELSE [ok |-> TRUE, err |-> "",
          out |-> InsertComponentComment(html_content, HashCompCls(cls), component_id)]

\* postprocess_component_html with no entry made in comp_hash_mapping
PostprocessUnregistered ==
    /\ At("postprocess")
    /\ registry' = registry
    /\ aggLog' = IF Top.rd
                 THEN Append(aggLog, [depth |-> Len(callStack), cls |-> Top.cls,
                                      nested |-> Top.nested])
                 ELSE aggLog
    /\ Postprocessed(PostprocessComponentHtml(cache,
                                              registry,
                                              Top.cls, Top.inst, Top.html, Top.type, Top.rd))
    /\ UNCHANGED <<cache, response, rendered>>
    /\ UnchangedOthers

\* lines 764-770: postprocess_component_html
Postprocess ==
    /\ At("postprocess")
    /\ registry' = (HashCompCls(Top.cls) :> Top.cls) @@ registry
    /\ aggLog' = IF Top.rd
                 THEN Append(aggLog, [depth |-> Len(callStack), cls |-> Top.cls,
                                      nested |-> Top.nested])
                 ELSE aggLog
    /\ Postprocessed(PostprocessComponentHtml(cache,
                                              (HashCompCls(Top.cls) :> Top.cls) @@ registry,
                                              Top.cls, Top.inst, Top.html, Top.type, Top.rd))
    /\ UNCHANGED <<cache, response, rendered>>
    /\ UnchangedOthers

\* lines 774-777: the frame is popped, the output goes to the caller
Return ==
    /\ At("pop")
    /\ renderStack' = [renderStack EXCEPT
                          ![Top.inst] = SubSeq(@, 1, Len(@) - 1)]
    /\ lastExit' = <<ExitRecord(Top, "return", Len(renderStack[Top.inst]) - 1, Top.output)>>
    /\ rendered' = [rendered EXCEPT !.finished = @ \cup {Top.cls}]
    /\ IF Len(callStack) = 1
       THEN /\ callStack' = <<>>
            /\ result' = [status |-> "ok", out |-> Top.output]
       ELSE /\ callStack' =
                 IF Top.via = "hook"
                 THEN [SubSeq(callStack, 1, Len(callStack) - 1) EXCEPT
                          ![Len(callStack) - 1].pc = "validate_outputs"]
                 ELSE [SubSeq(callStack, 1, Len(callStack) - 1) EXCEPT
                          ![Len(callStack) - 1].html = @ \o Top.output,
                          ![Len(callStack) - 1].tpos = @ + 1,
                          ![Len(callStack) - 1].nested = @ + Top.nested + 1]
            /\ UNCHANGED result
    /\ UNCHANGED <<cache, registry, exc, aggLog, response>>
    /\ UnchangedOthers

\* the steps that run code of the user, which may raise
RaisablePcs ==
    {"validate_inputs", "get_context_data", "validate_outputs", "prepare_template",
     "on_render_before", "template", "on_render_after"}

\* what the code of the user raises: Exception(), KeyError(42),
\* ValueError("msg"), ValueError("m\ns")
RaisedExceptions ==
    {NewException("raised", "Exception", "none", <<>>),
     NewException("raised", "KeyError", "int", <<"42">>),
     NewException("raised", "ValueError", "str", <<"msg">>),
     NewException("raised", "ValueError", "str", <<"m", "\n", "s">>)}

\* one of these steps raises
Raise ==
    /\ callStack # <<>>
    /\ Top.pc \in RaisablePcs
    /\ \E err \in RaisedExceptions : Raised(err)
    /\ UNCHANGED <<cache, registry, aggLog, response, rendered>>
    /\ UnchangedOthers

\* the caller of the top-level render has taken what the render gave it
TakeResult ==
    /\ callStack = <<>>
    /\ result.status # "none"
    /\ exc' = [thrown |-> NoException, left |-> NoException]
    /\ result' = NoResult
    /\ lastExit' = <<>>
    /\ aggLog' = <<>>
    /\ UNCHANGED <<cache, registry, renderStack, callStack, response, rendered>>
    /\ UnchangedOthers

\* a request reaches the endpoint while the thread is between two renders
Request ==
    /\ callStack = <<>>
    /\ result.status = "none"
    /\ \E method \in Methods, comp_cls_hash \in RequestHashes, script_type \in ScriptTypes :
          View(method, comp_cls_hash, script_type)

Init ==
    /\ InitIdle!1 /\ InitIdle!2 /\ InitIdle!4
    /\ InitIdle!8 /\ InitIdle!9 /\ InitIdle!10
    /\ InitIdle!11 /\ InitIdle!12 /\ InitIdle!13 /\ InitIdle!14
    /\ renderStack = [i \in Instances |-> <<>>]
    /\ exc = [thrown |-> NoException, left |-> NoException]
    /\ result = NoResult
    /\ lastExit = <<>>

Next ==
    \/ \E cls \in Classes, held \in BOOLEAN, type \in RenderTypes,
          render_dependencies \in BOOLEAN :
          StartRender(cls, held, type, render_dependencies)
    \/ ValidateInputs
    \/ GetContextData
    \/ HookRender
    \/ ValidateOutputs
    \/ CacheInlined
    \/ PrepareTemplate
    \/ OnRenderBefore
    \/ TemplateText
    \/ TemplateComponent
    \/ TemplateEnd
    \/ OnRenderAfter
    \/ Postprocess
    \/ Return
    \/ Raise
    \/ TakeResult
    \/ Request

Spec == Init /\ [][Next]_vars

-----------------------------------------------------------------------------
(* SpecCalls: render_dependencies called on a page that holds the output of *)
(* one render tree, as the middleware or user code calls it, and called     *)
(* once more on what it returned; the middleware on a response; and the     *)
(* resolution of the template of a component.                               *)

\* the text a render of the class with render_dependencies=False returns:
\* the marker of the instance, then its template with the nested renders
RECURSIVE MarkedHtml(_, _)
RECURSIVE TemplateHtml(_, _)
TemplateHtml(cls, i) ==
    IF i > Len(ClsTemplate(cls)) THEN <<>>
    ELSE (IF ClsTemplate(cls)[i].kind = "component"
          THEN MarkedHtml(ClsTemplate(cls)[i].cls, ClsTemplate(cls)[i].node_id)
          ELSE ClsTemplate(cls)[i].text)
         \o TemplateHtml(cls, i + 1)
MarkedHtml(cls, component_id) ==
    InsertComponentComment(IF OnRenderAfterOf(cls, TemplateHtml(cls, 1)) # None
                           THEN OnRenderAfterOf(cls, TemplateHtml(cls, 1))
                           ELSE TemplateHtml(cls, 1),
                           HashCompCls(cls), component_id)

\* the classes rendered in one render of the class, the outermost first
RECURSIVE TreeClasses(_, _)
TreeClasses(cls, i) ==
    IF i = 0 THEN <<cls>> \o TreeClasses(cls, 1)
    ELSE IF i > Len(ClsTemplate(cls)) THEN <<>>
    ELSE (IF ClsTemplate(cls)[i].kind = "component"
          THEN TreeClasses(ClsTemplate(cls)[i].cls, 0) ELSE <<>>)
         \o TreeClasses(cls, i + 1)

\* the cache after the classes went through lines 720-721, in this order
RECURSIVE CacheAfter(_, _)
CacheAfter(data, classes) ==
    IF classes = <<>> THEN data
    ELSE CacheAfter(CacheInlinedCss(CacheInlinedJs(data, Head(classes),
                                                   OrEmpty(ClsJs(Head(classes)))),
                                    Head(classes), OrEmpty(ClsCss(Head(classes)))),
                    Tail(classes))

\* comp_hash_mapping after the classes went through _insert_component_comment
RegistryAfter(classes) ==
    [h \in {HashCompCls(classes[i]) : i \in 1..Len(classes)} |-> ClassOfHash(h)]

\* The page around the output of the tree: nothing, or one head and one body,
\* with or without the placeholders of {% component_css_dependencies %} and
\* {% component_js_dependencies %}, which are not at the ends of head and body
Page(tree, page, css_placeholder, js_placeholder) ==
    LET css == IF css_placeholder THEN <<CssPlaceholder>> ELSE <<>>
        js == IF js_placeholder THEN <<JsPlaceholder>> ELSE <<>>
    IN  IF page
        THEN <<"<head>">> \o css \o <<"<title>", "</head>", "<body>">> \o js \o tree
             \o <<"</body>">>
        ELSE css \o js \o tree

\* The calls.  The content is a page around the output of the tree of a class
\* rendered in this process (known) or in another one, or around a text with
\* no component in it (cls "None"); a page has one head and one body.  The
\* content is bytes, a str or a SafeString.  A bare page may end with one more
\* marker (extra): with data that is no pair, or of a class never rendered.
CallInputs ==
    UNION {{[op |-> "render_dependencies", cls |-> cls, type |-> type, known |-> known,
             page |-> page, css_placeholder |-> cp, js_placeholder |-> jp,
             content_is |-> content_is, extra |-> extra,
             content |-> Page((IF cls = "None" THEN <<"t">>
                               ELSE MarkedHtml(cls, NewInstance)) \o extra, page, cp, jp)] :
                type \in RenderTypes, cp \in BOOLEAN, jp \in BOOLEAN,
                known \in IF cls = "None" THEN {TRUE} ELSE BOOLEAN,
                page \in IF cls # "None" /\ Contains(MarkedHtml(cls, NewInstance), "<head>")
                         THEN {FALSE} ELSE BOOLEAN,
                content_is \in {"bytes", "str", "SafeString"},
                extra \in {<<>>,
                           <<CommentOpen, "a", CommentClose>>,
                           <<CommentOpen, ",", "n", CommentClose>>,
                           <<CommentOpen, "a", ",", "n", ",", "1", CommentClose>>,
                           <<CommentOpen, "Z", "_", "0", ",", "n", "1", CommentClose>>}} :
           cls \in Classes \cup {"E", "F", "None"}}

\* render_dependencies, lines 330-335 and 385-387, without mark_safe
OutputNeverSafe(content_is) ==
    IF content_is \in {"str", "SafeString"} THEN "str" ELSE "bytes"

\* render_dependencies, lines 330-335 and 385-387: what is returned is
\* content_.decode() for a str (a SafeString is one) and the bytes otherwise,
\* and mark_safe of it when the content was a SafeString
Output(content_is) ==
    LET is_safestring == content_is = "SafeString"
        output == IF content_is \in {"str", "SafeString"} THEN "str" ELSE "bytes"
    IN  IF is_safestring THEN "SafeString" ELSE output

NoCallOutput ==
    [stage |-> "start", ok |-> FALSE, err |-> "", out |-> <<>>, output_is |-> "",
     dep |-> DepFailure(""), again |-> [ok |-> FALSE, err |-> "", out |-> <<>>]]

UnchangedButCalls ==
    UNCHANGED <<renderStack, callStack, exc, result, lastExit, aggLog, response, writes,
                rendered, threads, pin>>

\* render_dependencies with a write to the class registry in it
CallRenderDependenciesRegistering ==
    /\ pin.op = "render_dependencies"
    /\ pout.stage = "start"
    /\ LET deps == RenderDependencies(cache, registry, pin.content, pin.type)
       IN  pout' = [stage |-> "done", ok |-> deps.ok, err |-> deps.err, out |-> deps.out,
                    output_is |-> IF deps.ok THEN Output(pin.content_is) ELSE "",
                    dep |-> ProcessDepDeclarations(cache, registry, pin.content, pin.type),
                    again |-> pout.again]
    /\ cache' = cache
    /\ registry' = (<<"Z", "_", "0">> :> "A") @@ registry
    /\ UnchangedButCalls

\* render_dependencies(content, type): it reads comp_media_cache and
\* comp_hash_mapping and writes neither
CallRenderDependencies ==
    /\ pin.op = "render_dependencies"
    /\ pout.stage = "start"
    /\ LET deps == RenderDependencies(cache, registry, pin.content, pin.type)
       IN  pout' = [stage |-> "done", ok |-> deps.ok, err |-> deps.err, out |-> deps.out,
                    output_is |-> IF deps.ok THEN Output(pin.content_is) ELSE "",
                    dep |-> ProcessDepDeclarations(cache, registry, pin.content, pin.type),
                    again |-> pout.again]
    /\ cache' = cache
    /\ registry' = registry
    /\ UnchangedButCalls

\* render_dependencies(content, type) on what a first call with this type
\* returned, as the middleware does with the response of render_to_response
CallRenderDependenciesAgain ==
    /\ pin.op = "render_dependencies"
    /\ pout.stage = "done" /\ pout.ok
    /\ pout' = [pout EXCEPT !.stage = "again",
                            !.again = RenderDependencies(cache, registry, pout.out, pin.type)]
    /\ cache' = cache
    /\ registry' = registry
    /\ UnchangedButCalls

\* The template sources of a component class: the attribute template_name,
\* what get_template_name returns, the attribute template (a string or a
\* Template object, written <<type, source>>), what get_template returns;
\* None when not set
ImproperlyConfigured(msg) == [ok |-> FALSE, err |-> "ImproperlyConfigured", msg |-> msg, template |-> None]
\* get_template(template_name).template of the template engine
LoadedTemplate(template_name) == [by |-> "name", name |-> template_name, object |-> "loader"]
\* cached_template(template_input) for a string, the object itself otherwise
InlineTemplate(template_input) ==
    [by |-> "inline", source |-> template_input[2],
     object |-> IF template_input[1] = "str" THEN "cached_template" ELSE "given"]

\* Component._get_template without the check of lines 398-402
GetTemplateNameWins(template_name, get_template_name, template, get_template) ==
    IF template_name # None /\ get_template_name # None
    THEN ImproperlyConfigured("both 'template_name' and 'get_template_name'")
    ELSE IF template # None /\ get_template # None
    THEN ImproperlyConfigured("both 'template' and 'get_template'")
    ELSE LET name == IF template_name # None THEN template_name ELSE get_template_name
             template_input == IF template # None THEN template ELSE get_template
         IN  IF name # None
             THEN [ok |-> TRUE, err |-> "", msg |-> "", template |-> LoadedTemplate(name)]
             ELSE IF template_input # None
             THEN [ok |-> TRUE, err |-> "", msg |-> "",
                   template |-> InlineTemplate(template_input)]
             ELSE ImproperlyConfigured("either 'template_name' or 'template' must be set")

\* Component._get_template
GetTemplate(template_name, get_template_name, template, get_template) ==
    IF template_name # None /\ get_template_name # None
    THEN ImproperlyConfigured("both 'template_name' and 'get_template_name'")
    ELSE IF template # None /\ get_template # None
    THEN ImproperlyConfigured("both 'template' and 'get_template'")
    ELSE LET name == IF template_name # None THEN template_name ELSE get_template_name
             template_input == IF template # None THEN template ELSE get_template
         IN  IF name # None /\ template_input # None
             THEN ImproperlyConfigured("both 'template_name' and 'template'")
             ELSE IF name # None
             THEN [ok |-> TRUE, err |-> "", msg |-> "", template |-> LoadedTemplate(name)]
             ELSE IF template_input # None
             THEN [ok |-> TRUE, err |-> "", msg |-> "",
                   template |-> InlineTemplate(template_input)]
             ELSE ImproperlyConfigured("either 'template_name' or 'template' must be set")

\* The renders of a class with any of the combinations of sources, at the
\* `with _prepare_template(...)` of _render_impl
TemplateInputs ==
    {[op |-> "get_template", template_name |-> tn, get_template_name |-> gtn,
      template |-> t, get_template |-> gt] :
        tn \in {None, <<"t.html">>}, gtn \in {None, <<"g.html">>},
        t \in {None, <<"str", "a">>, <<"Template", "b">>},
        gt \in {None, <<"str", "c">>, <<"Template", "e">>}}

\* ran: the steps of the with-body that ran, in their order
NoTemplateOutput == [stage |-> "prepare_template", ok |-> FALSE, err |-> "", template |-> None, ran |-> <<>>]

\* _prepare_template: the template is resolved before the body of the with
\* statement is entered; an exception of _get_template leaves the render
CallPrepareTemplate ==
    /\ pin.op = "get_template"
    /\ pout.stage = "prepare_template"
    /\ LET got == GetTemplate(pin.template_name, pin.get_template_name, pin.template,
                              pin.get_template)
       IN  pout' = [pout EXCEPT !.stage = IF got.ok THEN "on_render_before" ELSE "raised",
                                !.ok = got.ok, !.err = got.err, !.template = got.template]
    /\ UNCHANGED <<cache, registry>>
    /\ UnchangedButCalls

\* self.on_render_before(context, template)
CallOnRenderBefore ==
    /\ pin.op = "get_template"
    /\ pout.stage = "on_render_before"
    /\ pout' = [pout EXCEPT !.stage = "template", !.ran = Append(@, "on_render_before")]
    /\ UNCHANGED <<cache, registry>>
    /\ UnchangedButCalls

\* html_content = template.render(context)
CallTemplateRender ==
    /\ pin.op = "get_template"
    /\ pout.stage = "template"
    /\ pout' = [pout EXCEPT !.stage = "rendered", !.ran = Append(@, "template.render")]
    /\ UNCHANGED <<cache, registry>>
    /\ UnchangedButCalls

\* decide_render_type_htmx: request.htmx is set by the htmx middleware; the
\* assert fails on a request that has no such attribute
DecideRenderTypeHtmx(htmx) ==
    IF htmx = "absent" THEN [ok |-> FALSE, err |-> "AssertionError", type |-> ""]
    ELSE [ok |-> TRUE, err |-> "", type |-> IF htmx = "true" THEN "fragment" ELSE "document"]

\* ComponentDependencyMiddleware._process_response: the content of the
\* response afterwards
ProcessResponse(data, reg, htmx, resp) ==
    IF ~resp.streaming
       /\ Len(resp.content_type) >= 2
       /\ SubSeq(resp.content_type, 1, 2) = <<"text/", "html">>
    THEN LET render_type == DecideRenderTypeHtmx(htmx)
         IN  IF ~render_type.ok THEN [ok |-> FALSE, err |-> render_type.err, content |-> <<>>]
             ELSE LET deps == RenderDependencies(data, reg, resp.content, render_type.type)
                  IN  [ok |-> deps.ok, err |-> deps.err, content |-> deps.out]
    ELSE [ok |-> TRUE, err |-> "", content |-> resp.content]

\* The responses that reach the middleware: a page with the output of the
\* tree of a class rendered in this process; streaming or not; with the
\* Content-Type header missing, of HTML, or of something else; the request
\* without the attribute htmx, or with it true or false
ResponseInputs ==
    {[op |-> "process_response", cls |-> "C", htmx |-> htmx,
      response |-> [streaming |-> streaming, content_type |-> content_type,
                    content |-> Page(MarkedHtml("C", NewInstance), TRUE, FALSE, FALSE)]] :
        htmx \in {"absent", "true", "false"}, streaming \in BOOLEAN,
        content_type \in {<<>>, <<"text/", "html">>,
                          <<"text/", "html", ";", " charset=utf-8">>,
                          <<"text/", "plain">>, <<"application/", "json">>}}

\* response = self._process_response(request, response)
CallProcessResponse ==
    /\ pin.op = "process_response"
    /\ pout.stage = "start"
    /\ LET r == ProcessResponse(cache, registry, pin.htmx, pin.response)
       IN  pout' = [pout EXCEPT !.stage = "done", !.ok = r.ok, !.err = r.err,
                                !.out = r.content]
    /\ UNCHANGED <<cache, registry>>
    /\ UnchangedButCalls

InitCalls ==
    /\ InitIdle!3 /\ InitIdle!4 /\ InitIdle!5
    /\ InitIdle!6 /\ InitIdle!7 /\ InitIdle!8 /\ InitIdle!9 /\ InitIdle!10
    /\ InitIdle!11 /\ InitIdle!12
    /\ pin \in CallInputs \cup TemplateInputs \cup ResponseInputs
    /\ LET classes == IF pin.op = "process_response" THEN TreeClasses(pin.cls, 0)
                      ELSE IF pin.op = "render_dependencies" /\ pin.cls # "None"
                              /\ pin.known
                      THEN TreeClasses(pin.cls, 0)
                      ELSE <<>>
       IN  /\ cache = CacheAfter(EmptyCache, classes)
           /\ registry = IF classes = <<>> THEN EmptyCache ELSE RegistryAfter(classes)
    /\ pout = IF pin.op = "get_template" THEN NoTemplateOutput ELSE NoCallOutput

NextCalls ==
    \/ CallRenderDependencies
    \/ CallPrepareTemplate
    \/ CallOnRenderBefore
    \/ CallTemplateRender
    \/ CallProcessResponse
    \/ CallRenderDependenciesAgain

SpecCalls == InitCalls /\ [][NextCalls]_vars

-----------------------------------------------------------------------------
(* The claims *)

\* C1 as stated: every call of render, whether it returned or raised, leaves
\* the render stack of its instance as deep as it found it, and after a
\* top-level render the stack of the instance the caller holds is empty.
C1_StackDepthRestored ==
    /\ \A i \in 1..Len(lastExit) : lastExit[i].after = lastExit[i].before
    /\ callStack = <<>> => renderStack[HeldInstance] = <<>>

\* C2 as stated: every cache entry holds the content handed to the first
\* call that wrote it, and no later call wrote it again.
C2_FirstWriteWinsRaw ==
    \A k \in DOMAIN cache : Len(writes[k]) = 1 /\ cache[k] = writes[k][1]

\* C2 amended: every cache entry holds the whitespace-stripped content handed
\* to the first call that wrote it; no later call of cache_inlined_js or
\* cache_inlined_css for the same class and kind wrote it again.
C2_FirstWriteWins ==
    \A k \in DOMAIN cache : Len(writes[k]) = 1 /\ cache[k] = Strip(writes[k][1])

\* C2's case: an entry exists and the last call, for the same class and
\* kind, handed in a content that differs from it.
C2_Witness ==
    /\ pin.cls \in Classes
    /\ LET k == GenCacheKey(HashCompCls(pin.cls), pin.type)
       IN  /\ k \in DOMAIN cache
           /\ Strip(pin.content) # cache[k]
           /\ pin.content # writes[k][1]

\* C3: once a cache entry exists, no step of any thread changes its content.
C3_EntryNeverChanges ==
    [][\A k \in DOMAIN cache : k \in DOMAIN cache' /\ cache'[k] = cache[k]]_vars

\* C4 as stated: the cache holds an entry for a class and a kind only if the
\* class declares a non-empty, not whitespace-only, inlined asset of that kind.
C4_EntryOnlyForDeclaredAsset ==
    \A cls \in Classes, script_type \in ScriptTypes :
        CacheHas(cache, GenCacheKey(HashCompCls(cls), script_type))
            => IsNonemptyStr(ClsScript(cls, script_type))

\* C5 as stated: for a class with non-empty inlined css, a GET for its css is
\* answered 404 before any render of the class, and 200 with the css as body
\* and content type text/css once a render of the class has finished.
C5_CssServedAfterRender ==
    \A cls \in Classes :
        (/\ IsNonemptyStr(ClsCss(cls))
         /\ response.method = "GET"
         /\ response.hash = HashCompCls(cls)
         /\ response.type = "css")
        => /\ ~response.started => response.answer.status = 404
           /\ response.finished =>
                 response.answer = [status |-> 200, body |-> ClsCss(cls), ctype |-> "text/css"]

\* C6: the answer of the endpoint is 405 for every method but GET, else 404
\* when the cache has no entry for the class hash and kind, else 200 with the
\* cached content and the content type of the kind; the cache is the same
\* after the request as before it.
C6_EndpointAnswer ==
    /\ [](response.method # "none" =>
            LET key == <<"__components:">> \o response.hash \o <<":", response.type>>
            IN  IF response.method # "GET" THEN response.answer.status = 405
                ELSE IF key \notin DOMAIN cache THEN response.answer.status = 404
                ELSE response.answer =
                        [status |-> 200, body |-> cache[key],
                         ctype |-> IF response.type = "js" THEN "text/javascript"
                                   ELSE "text/css"])
    /\ [][response' # response => cache' = cache]_vars

\* C6's case: a request with another method than GET for an entry that exists
C6_Witness ==
    /\ response.method = "POST"
    /\ GenCacheKey(response.hash, response.type) \in DOMAIN cache
    /\ response.answer.status = 405

\* the renders through {% component %} tags in one render of the class
RECURSIVE NestedRenders(_, _)
NestedRenders(cls, i) ==
    IF i > Len(ClsTemplate(cls)) THEN 0
    ELSE (IF ClsTemplate(cls)[i].kind = "component"
          THEN 1 + NestedRenders(ClsTemplate(cls)[i].cls, 1) ELSE 0)
         + NestedRenders(cls, i + 1)

\* C7: in the tree of one top-level render the aggregator runs at most once,
\* in the outermost render and after all its nested renders have returned,
\* and exactly once when that render asked for the dependencies and returned;
\* every render through a tag runs with render_dependencies false and gives
\* its parent a text with its own marker in front.
C7_AggregatesOnceAtOutermost ==
    /\ \A i \in 1..Len(callStack) :
          callStack[i].via = "component" => ~callStack[i].rd
    /\ Len(aggLog) <= 1
    /\ \A i \in 1..Len(aggLog) :
          aggLog[i].depth = 1 /\ aggLog[i].nested = NestedRenders(aggLog[i].cls, 1)
    /\ \A i \in 1..Len(lastExit) :
          lastExit[i].how = "return" =>
             IF lastExit[i].via = "component"
             THEN LET marker == <<CommentOpen>> \o HashCompCls(lastExit[i].cls) \o <<",">>
                                \o lastExit[i].inst \o <<CommentClose>>
                  IN  /\ Len(lastExit[i].out) >= Len(marker)
                      /\ SubSeq(lastExit[i].out, 1, Len(marker)) = marker
             ELSE lastExit[i].rd => Len(aggLog) = 1

\* C7's case: a top-level render with nested renders to depth two has
\* returned, with the dependencies rendered
C7_Witness ==
    /\ callStack = <<>>
    /\ result.status = "ok"
    /\ Len(lastExit) = 1 /\ lastExit[1].via = "top" /\ lastExit[1].rd
    /\ Len(aggLog) = 1 /\ aggLog[1].nested = 3

\* C8: a marker embedded for any class hash over word characters, "-", "."
\* and "/" and any component id of word characters is recovered by the scan
\* as exactly that pair, and no marker text is left in the content.
C8_MarkerRoundTrip ==
    (pin.op = "scan" /\ pin.markers \in FreeMarkers /\ pout.stage = "scanned")
        => /\ pout.ok
           /\ pout.pairs = <<[ok |-> TRUE, comp_cls_hash |-> pin.markers[1].comp_cls_hash,
                               id |-> pin.markers[1].component_id]>>
           /\ pout.content = pin.html

\* C9: the class hashes the aggregator processes are the hashes of the
\* document's markers, each exactly once, in the order of first appearance.
MarkerHashes == [i \in 1..Len(pin.markers) |-> pin.markers[i].comp_cls_hash]
\* the positions of seq that hold a key not seen at an earlier position
FirstPositions(keys) == {k \in 1..Len(keys) : \A m \in 1..(k - 1) : keys[m] # keys[k]}
\* the i-th smallest member of a set of positions
Nth(S, i) == CHOOSE k \in S : Cardinality({m \in S : m <= k}) = i
C9_FirstAppearanceOrder ==
    (pin.op = "scan" /\ pin.markers \in ClassMarkers /\ pout.stage = "scanned")
        => LET firsts == FirstPositions(MarkerHashes)
           IN  /\ pout.ok
               /\ Len(pout.comp_hashes) = Cardinality(firsts)
               /\ \A i \in 1..Len(pout.comp_hashes) :
                     pout.comp_hashes[i] = MarkerHashes[Nth(firsts, i)]

\* C9's case: A, B, C in that order, and B again later
C9_Witness ==
    /\ pin.op = "scan" /\ pout.stage = "scanned"
    /\ Len(pin.markers) >= 4
    /\ MarkerHashes[1] = HashCompCls("A") /\ MarkerHashes[2] = HashCompCls("B")
    /\ MarkerHashes[3] = HashCompCls("C") /\ MarkerHashes[4] = HashCompCls("B")
    /\ pout.comp_hashes = <<HashCompCls("A"), HashCompCls("B"), HashCompCls("C")>>

\* C10: the kept media tags are one per distinct URL, each the exact text of
\* the first tag given with that URL, in the order of first appearance of
\* their URLs.
TagUrl(tag) == GetAttr(Strip(tag), UrlAttr(pin.script_type))
Aggregated(type) ==
    /\ pin.op = "render_dependencies" /\ pout.stage = "done" /\ pin.type = type
    /\ pin.cls \in Classes /\ pin.extra = <<>>

\* the text holds the block, symbol for symbol
HasBlock(text, block) ==
    \E i \in 0..(Len(text) - Len(block)) : SubSeq(text, i + 1, i + Len(block)) = block

\* the classes of the tree that declare a non-empty inlined js / css
WithJs(cls) == {c \in Classes : Contains(TreeClasses(cls, 0), c) /\ IsNonemptyStr(ClsJs(c))}
WithCss(cls) == {c \in Classes : Contains(TreeClasses(cls, 0), c) /\ IsNonemptyStr(ClsCss(c))}
HasMedia(cls) ==
    \E c \in Classes : Contains(TreeClasses(cls, 0), c)
                       /\ (ClsMediaJs(c) # <<>> \/ ClsMediaCss(c) # <<>>)

\* C11 (as the specification states it): a document-type aggregation of a
\* rendered tree whose declared assets are all inlined js/css returns a text
\* that holds a <script> block with each inlined js, a <style> block with each
\* inlined css, and no manifest block.
C11_DocumentInlinesWithoutManifest ==
    (Aggregated("document") /\ pin.known /\ ~HasMedia(pin.cls)
     /\ WithJs(pin.cls) \cup WithCss(pin.cls) # {})
        => /\ pout.ok
           /\ \A c \in WithJs(pin.cls) :
                HasBlock(pout.out, <<"<script>">> \o Strip(ClsJs(c)) \o <<"</script>">>)
           /\ \A c \in WithCss(pin.cls) :
                HasBlock(pout.out, <<"<style>">> \o Strip(ClsCss(c)) \o <<"</style>">>)
           /\ ~Contains(pout.out, ManifestOpen)

\* the symbols that open a literal asset tag, and the two placeholders
AssetTagSymbols == {"<style>", "<script>", "<script ", "<link ", CssPlaceholder, JsPlaceholder}

\* where manifest blocks open in a text
ManifestsIn(text) == {i \in 1..Len(text) : text[i] = ManifestOpen}

\* the entries of one list of a manifest, still encoded
ManifestList(manifest, key) ==
    LET at == Min({i \in 1..Len(manifest) : manifest[i] = key})
        end == Min({i \in at..Len(manifest) : manifest[i] = "]"})
    IN  SubSeq(manifest, at + 2, end - 1)

\* the URLs of the externally declared media of the tree's classes
InTree(cls) == {c \in Classes : Contains(TreeClasses(cls, 0), c)}
TreeMediaJs(cls) == UNION {{ClsMediaJs(c)[i] : i \in 1..Len(ClsMediaJs(c))} : c \in InTree(cls)}
TreeMediaCss(cls) == UNION {{ClsMediaCss(c)[i] : i \in 1..Len(ClsMediaCss(c))} : c \in InTree(cls)}

\* C12: a fragment-type aggregation of a rendered tree with at least one
\* declared asset succeeds; its output holds exactly one manifest block, which
\* ends the output; before the manifest there is no <style>, <script> or
\* <link> tag and no placeholder; the manifest lists the tag of every inlined
\* css and of every declared css URL under toLoadCssTags and the tag of every
\* inlined js and of every declared js URL under toLoadJsTags.
C12_FragmentOnlyManifest ==
    (Aggregated("fragment") /\ pin.known
     /\ (WithJs(pin.cls) \cup WithCss(pin.cls) # {} \/ HasMedia(pin.cls)))
        => /\ pout.ok
           /\ Cardinality(ManifestsIn(pout.out)) = 1
           /\ LET at == Min(ManifestsIn(pout.out))
                  body == SubSeq(pout.out, 1, at - 1)
                  manifest == SubSeq(pout.out, at, Len(pout.out))
                  css == ManifestList(manifest, "toLoadCssTags")
                  js == ManifestList(manifest, "toLoadJsTags")
              IN  /\ \A i \in 1..Len(body) : body[i] \notin AssetTagSymbols
                  /\ {i \in 1..Len(manifest) : manifest[i] = "</script>"} = {Len(manifest)}
                  /\ \A c \in WithCss(pin.cls) :
                        HasBlock(css, B64(LinkHrefTag(GetScriptUrl("css", c))))
                  /\ \A c \in WithJs(pin.cls) :
                        HasBlock(js, B64(ScriptSrcTag(GetScriptUrl("js", c))))
                  /\ \A url \in TreeMediaCss(pin.cls) : HasBlock(css, B64(LinkHrefTag(url)))
                  /\ \A url \in TreeMediaJs(pin.cls) : HasBlock(js, B64(ScriptSrcTag(url)))

\* C12's case: a page with both placeholders around a tree with inlined and
\* declared assets, aggregated as a fragment: the manifest is all that is added
C12_Witness ==
    /\ Aggregated("fragment") /\ pin.known /\ pout.ok
    /\ HasMedia(pin.cls) /\ WithJs(pin.cls) # {} /\ WithCss(pin.cls) # {}
    /\ pin.css_placeholder /\ pin.js_placeholder
    /\ Cardinality(ManifestsIn(pout.out)) = 1
    /\ ~Contains(pout.out, CssPlaceholder) /\ ~Contains(pout.out, JsPlaceholder)

\* the page of a call as it is without the markers
RECURSIVE PlainHtml(_, _)
PlainHtml(cls, i) ==
    IF i > Len(ClsTemplate(cls)) THEN <<>>
    ELSE (IF ClsTemplate(cls)[i].kind = "component"
          THEN PlainHtml(ClsTemplate(cls)[i].cls, 1)
          ELSE ClsTemplate(cls)[i].text)
         \o PlainHtml(cls, i + 1)
PlainPage == Page(PlainHtml(pin.cls, 1), pin.page, pin.css_placeholder, pin.js_placeholder)

\* the text before the first `sym`, and the text from it on
Upto(text, sym) == SubSeq(text, 1, Min({i \in 1..Len(text) : text[i] = sym}) - 1)
From(text, sym) == SubSeq(text, Min({i \in 1..Len(text) : text[i] = sym}), Len(text))
\* the text with `extra` at the end of the section that `sym` closes, if any
AtEndOf(text, sym, extra) ==
    IF Contains(text, sym) THEN Upto(text, sym) \o extra \o From(text, sym) ELSE text
\* the text with each placeholder replaced by the assets of its kind
AtPlaceholders(text, css, js) ==
    Concat([i \in 1..Len(text) |-> IF text[i] = CssPlaceholder THEN css
                                   ELSE IF text[i] = JsPlaceholder THEN js
                                   ELSE <<text[i]>>])

HasHeadAndBody(text) == Contains(text, "</head>") /\ Contains(text, "</body>")

\* C13: a successful document-type aggregation of a page with both
\* placeholders returns the page with the CSS tags in place of the CSS
\* placeholder and the JS tags in place of the JS placeholder and nothing else
\* added, also when the page has a head and a body; of a page with no
\* placeholder and with a head and a body it returns the page with the CSS
\* tags at the end of the head and the JS tags at the end of the body.
C13_PlaceholderPrecedence ==
    (Aggregated("document") /\ pout.ok)
        => /\ (pin.css_placeholder /\ pin.js_placeholder)
                => pout.out = AtPlaceholders(PlainPage, pout.dep.css, pout.dep.js)
           /\ (~pin.css_placeholder /\ ~pin.js_placeholder /\ HasHeadAndBody(PlainPage))
                => pout.out = AtEndOf(AtEndOf(PlainPage, "</head>", pout.dep.css),
                                      "</body>", pout.dep.js)

\* C13's case: both placeholders in a page with head and body, CSS and JS to
\* place: each kind is in the output once, where its placeholder was
C13_Witness ==
    /\ Aggregated("document") /\ pout.ok
    /\ pin.css_placeholder /\ pin.js_placeholder /\ HasHeadAndBody(PlainPage)
    /\ pout.dep.css # <<>> /\ pout.dep.js # <<>>
    /\ pout.out = <<"<head>">> \o pout.dep.css \o <<"<title>", "</head>", "<body>">>
                  \o pout.dep.js \o PlainHtml(pin.cls, 1) \o <<"</body>">>

ToLoad(tags) == IF pin.type = "fragment" THEN tags ELSE <<>>

\* C15: the JS payload of a successful aggregation pass holds a manifest
\* block if and only if one of the four lists of the pass is non-empty: the
\* loaded CSS URLs, the loaded JS URLs, the CSS tags to load, the JS tags to
\* load.  With the four lists empty the output holds no manifest; where the
\* JS payload has a place in the output (a fragment, a JS placeholder, a body)
\* the output holds a manifest exactly when one of the lists is non-empty.
AnyManifestList ==
    \/ pout.dep.loaded_css_urls # <<>>
    \/ pout.dep.loaded_js_urls # <<>>
    \/ ToLoad(pout.dep.to_load_css_tags) # <<>>
    \/ ToLoad(pout.dep.to_load_js_tags) # <<>>
C15_ManifestIffAnyList ==
    ((Aggregated("document") \/ Aggregated("fragment")) /\ pout.ok)
        => /\ Contains(pout.dep.js, ManifestOpen) <=> AnyManifestList
           /\ ~AnyManifestList => ~Contains(pout.out, ManifestOpen)
           /\ (pin.type = "fragment" \/ pin.js_placeholder \/ Contains(PlainPage, "</body>"))
                => (Contains(pout.out, ManifestOpen) <=> AnyManifestList)

\* C15's case: a rendered tree with a marker and no asset at all, aggregated:
\* the four lists are empty and the output has no manifest
C15_Witness ==
    /\ (Aggregated("document") \/ Aggregated("fragment")) /\ pout.ok /\ pin.known
    /\ pout.dep.comp_hashes # <<>>
    /\ pout.dep.loaded_css_urls = <<>> /\ pout.dep.loaded_js_urls = <<>>
    /\ pout.dep.to_load_css_tags = <<>> /\ pout.dep.to_load_js_tags = <<>>
    /\ ~Contains(pout.out, ManifestOpen)

\* C20: a call of render_dependencies, of either type, returning or raising,
\* leaves the asset cache and the class registry as they were.
C20_AggregationWritesNothing ==
    [][(pin.op = "render_dependencies" /\ pout.stage = "start" /\ pout'.stage = "done")
          => (cache' = cache /\ registry' = registry)]_vars

\* C20's case: a call that raised, made with entries in the cache and in the
\* registry
C20_Witness ==
    /\ (Aggregated("document") \/ Aggregated("fragment")) /\ ~pout.ok
    /\ cache # EmptyCache /\ registry # EmptyCache
    /\ cache = CacheAfter(EmptyCache, TreeClasses(pin.cls, 0))
    /\ registry = RegistryAfter(TreeClasses(pin.cls, 0))

\* the sources of a render that are set
SourcesSet ==
    {k \in {"template_name", "get_template_name", "template", "get_template"} :
        pin[k] # None}

\* C18: with exactly one of the four template sources set the template is
\* resolved, a named source by its name through the template loader and an
\* inline source to the inline template itself; with none or more than one set
\* the render raises ImproperlyConfigured, and neither on_render_before nor
\* template.render has run.
C18_ExactlyOneTemplateSource ==
    (pin.op = "get_template" /\ pout.stage # "prepare_template")
        => /\ pout.ok <=> Cardinality(SourcesSet) = 1
           /\ ~pout.ok => /\ pout.stage = "raised" /\ pout.err = "ImproperlyConfigured"
                          /\ pout.ran = <<>>
           /\ pout.ok =>
                /\ SourcesSet = {"template_name"}
                     => (pout.template.by = "name" /\ pout.template.name = pin.template_name)
                /\ SourcesSet = {"get_template_name"}
                     => (pout.template.by = "name"
                         /\ pout.template.name = pin.get_template_name)
                /\ SourcesSet = {"template"}
                     => (pout.template.by = "inline"
                         /\ pout.template.source = pin.template[2])
                /\ SourcesSet = {"get_template"}
                     => (pout.template.by = "inline"
                         /\ pout.template.source = pin.get_template[2])

\* C18's case: template_name and template both set, the render has raised
\* the configuration error and no step of the body has run
C18_Witness ==
    /\ pin.op = "get_template" /\ pout.stage = "raised"
    /\ SourcesSet = {"template_name", "template"}
    /\ pout.err = "ImproperlyConfigured" /\ pout.ran = <<>>

\* the names of the components an exception left, the outermost first
RaisedThrough ==
    [i \in 1..Len(lastExit) |-> ComponentName(lastExit[Len(lastExit) + 1 - i].cls)]

\* the one prefix line for these names
PrefixLine(names) ==
    <<"An error occured while rendering components ">>
    \o [i \in 1..(2 * Len(names) - 1) |-> IF i % 2 = 1 THEN names[(i + 1) \div 2] ELSE " > "]
    \o <<":", "\n">>

\* C16: an exception with a string message raised in the render of Cn, nested
\* in C1 > ... > Cn, leaves the render of C1 with the message made of one
\* prefix line naming C1 > ... > Cn, the outermost first, and the original
\* message after it; the prefix is in the message once.
C16_OnePrefixLine ==
    (callStack = <<>> /\ result.status = "raised" /\ exc.thrown.arg = "str")
        => /\ exc.left.msg = PrefixLine(RaisedThrough) \o exc.thrown.msg
           /\ Cardinality({i \in 1..Len(exc.left.msg) :
                 exc.left.msg[i] = "An error occured while rendering components "}) = 1

\* C16's case: a message of two lines raised three components deep
C16_Witness ==
    /\ callStack = <<>> /\ result.status = "raised"
    /\ exc.thrown.msg = <<"m", "\n", "s">>
    /\ RaisedThrough = <<"A", "C", "D">>
    /\ exc.left.msg = <<"An error occured while rendering components ",
                        "A", " > ", "C", " > ", "D", ":", "\n", "m", "\n", "s">>

\* C17 (as the specification states it): whatever the arguments of the
\* exception raised in a render, the exception that leaves the render is that
\* same object, of the same type.
C17_SameExceptionLeaves ==
    (callStack = <<>> /\ result.status = "raised")
        => (exc.left.id = exc.thrown.id /\ exc.left.kind = exc.thrown.kind)

\* C19: Component.input of an instance fails exactly when the render stack of
\* the instance is empty; in a render that has pushed its frame it gives the
\* input of that render, also when the render runs inside another render of
\* the same instance, and in the outer render again once the inner one has
\* returned.
C19_InputIsInnermostFrame ==
    /\ \A inst \in Instances : Input(renderStack[inst]).ok <=> renderStack[inst] # <<>>
    /\ (callStack # <<>> /\ Top.pc # "validate_inputs")
          => /\ Input(renderStack[Top.inst]).type = Top.type
             /\ Input(renderStack[Top.inst]).render_dependencies = Top.rd
    /\ (Len(callStack) > 1 /\ Top.via = "hook" /\ Top.pc = "validate_inputs")
          => /\ Input(renderStack[Top.inst]).type = callStack[Len(callStack) - 1].type
             /\ Input(renderStack[Top.inst]).render_dependencies
                   = callStack[Len(callStack) - 1].rd

\* C19's case: the render of the instance inside its own get_context_data has
\* returned, and in the outer render the input is again the outer one
C19_Witness ==
    /\ Len(callStack) = 1 /\ Top.inst = HeldInstance /\ Top.pc = "validate_outputs"
    /\ Len(lastExit) = 1 /\ lastExit[1].via = "hook" /\ lastExit[1].how = "return"
    /\ lastExit[1].inst = HeldInstance
    /\ Len(renderStack[HeldInstance]) = 1
    /\ Input(renderStack[HeldInstance]).ok
    /\ Input(renderStack[HeldInstance]).type = "document"
    /\ Input(renderStack[HeldInstance]).render_dependencies

\* C21: render_dependencies returns what it was given in kind, for both types
\* and with or without components in the content: bytes for bytes, a str for
\* a str, a SafeString for a SafeString and a plain str for a plain str.
C21_SameKindOut ==
    (pin.op = "render_dependencies" /\ pout.stage = "done" /\ pout.ok)
        => pout.output_is = pin.content_is

\* C21's case: a SafeString with the output of components in it, aggregated
\* and rewritten, is returned as a SafeString
C21_Witness ==
    /\ pin.op = "render_dependencies" /\ pout.stage = "done" /\ pout.ok
    /\ pin.cls \in Classes /\ pin.content_is = "SafeString"
    /\ pout.out # pin.content
    /\ pout.output_is = "SafeString"

\* the data of the extra marker of a call is no (class hash, component id) pair
MalformedExtra ==
    /\ pin.extra # <<>>
    /\ LET data == SubSeq(pin.extra, 2, Len(pin.extra) - 1)
           commas == {i \in 1..Len(data) : data[i] = ","}
       IN  Cardinality(commas) # 1 \/ commas = {1} \/ commas = {Len(data)}

\* the content of a call holds a marker of a class that is not in the registry
UnregisteredMarker ==
    \/ pin.cls \in Classes /\ ~pin.known
    \/ pin.extra # <<>> /\ ~MalformedExtra
       /\ SubSeq(pin.extra, 2, 4) \notin DOMAIN registry

\* C22: render_dependencies raises and returns nothing when the content holds
\* a marker whose data is not one (class hash, component id) pair, the
\* RuntimeError of malformed data, or a marker whose class hash is not in the
\* class registry.
C22_BadMarkerFails ==
    (pin.op = "render_dependencies" /\ pout.stage = "done")
        => /\ MalformedExtra
                => (~pout.ok /\ pout.out = <<>>
                    /\ pout.err = "RuntimeError: Malformed dependencies data")
           /\ UnregisteredMarker => (~pout.ok /\ pout.out = <<>>)
           /\ (UnregisteredMarker /\ ~MalformedExtra /\ pin.cls \in Classes /\ ~pin.known)
                => pout.err = "KeyError"

\* C22's case: after the output of a rendered tree the content holds the
\* marker of a class that was never rendered here: the call raises KeyError
C22_Witness ==
    /\ pin.op = "render_dependencies" /\ pout.stage = "done"
    /\ pin.cls = "C" /\ pin.known /\ pin.type = "fragment"
    /\ pin.extra = <<CommentOpen, "Z", "_", "0", ",", "n", "1", CommentClose>>
    /\ <<"Z", "_", "0">> \notin DOMAIN registry
    /\ ~pout.ok /\ pout.err = "KeyError" /\ pout.out = <<>>

\* the response of a call is one the middleware is to rewrite
IsHtmlResponse ==
    /\ ~pin.response.streaming
    /\ Len(pin.response.content_type) >= 2
    /\ pin.response.content_type[1] = "text/" /\ pin.response.content_type[2] = "html"

\* C23 (as the specification states it): the middleware returns the response
\* with its content aggregated when the response is not streaming and its
\* Content-Type starts with text/html, as a fragment when the request is
\* htmx's and as a document otherwise, also when the request says nothing
\* about htmx; it returns every other response with its content as it was.
C23_MiddlewareRewritesHtml ==
    (pin.op = "process_response" /\ pout.stage = "done")
        => /\ pout.ok
           /\ IsHtmlResponse
                => pout.out = RenderDependencies(cache, registry, pin.response.content,
                                 IF pin.htmx = "true" THEN "fragment" ELSE "document").out
           /\ ~IsHtmlResponse => pout.out = pin.response.content

\* C24: Component.is_filled of an instance fails when the render stack of the
\* instance is empty, and in a render that has pushed its frame it fails
\* until the template is resolved (in get_context_data, up to
\* _prepare_template); from on_render_before until the frame is popped it
\* gives the snapshot of the slots of that render, the innermost one of the
\* instance.
C24_IsFilledFromTemplateOn ==
    /\ \A inst \in Instances : renderStack[inst] = <<>> => ~IsFilled(renderStack[inst]).ok
    /\ (callStack # <<>> /\ Top.pc \in {"get_context_data", "validate_outputs", "cache_inlined", "prepare_template"})
          => (~IsFilled(renderStack[Top.inst]).ok /\ renderStack[Top.inst] # <<>>)
    /\ (callStack # <<>> /\ Top.pc \in {"on_render_before", "template", "on_render_after", "postprocess", "pop"})
          => /\ IsFilled(renderStack[Top.inst]).ok
             /\ IsFilled(renderStack[Top.inst]).is_filled
                   = <<"SlotIsFilled">> \o (IF Top.via = "hook" THEN <<"s">> ELSE <<>>)

\* C24's case: the render of the instance inside its own get_context_data has
\* set its snapshot and returned, and in the outer render, whose template is
\* not resolved yet, the accessor fails again
C24_Witness ==
    /\ Len(callStack) = 1 /\ Top.inst = HeldInstance /\ Top.pc = "validate_outputs"
    /\ Len(lastExit) = 1 /\ lastExit[1].via = "hook" /\ lastExit[1].how = "return"
    /\ Len(renderStack[HeldInstance]) = 1
    /\ ~IsFilled(renderStack[HeldInstance]).ok
    /\ IsFilled(renderStack[HeldInstance]).err = "RuntimeError: before slots were resolved"

\* the text the template of a class renders to, with the output of the
\* components in it, and the HTML left after on_render_after
TemplateOutput(cls) == TemplateHtml(cls, 1)
FinalHtml(cls) ==
    IF OnRenderAfterOf(cls, TemplateOutput(cls)) # None
    THEN OnRenderAfterOf(cls, TemplateOutput(cls)) ELSE TemplateOutput(cls)

\* C25: a render with render_dependencies=False returns one marker with the
\* hash of the class and the component_id of the instance, and right after it
\* the final HTML: what on_render_after returned when that is not None, the
\* output of the template otherwise.
C25_MarkerThenFinalHtml ==
    /\ (callStack # <<>> /\ Top.pc = "pop" /\ ~Top.rd)
          => /\ Top.output = <<CommentOpen>> \o HashCompCls(Top.cls) \o <<",">> \o Top.inst
                                \o <<CommentClose>> \o FinalHtml(Top.cls)
             /\ Top.html = FinalHtml(Top.cls)
    /\ (callStack = <<>> /\ result.status = "ok" /\ Len(lastExit) = 1 /\ ~lastExit[1].rd)
          => result.out = <<CommentOpen>> \o HashCompCls(lastExit[1].cls) \o <<",">>
                             \o lastExit[1].inst \o <<CommentClose>>
                             \o FinalHtml(lastExit[1].cls)

\* C25's cases: a render without aggregation has returned for a class whose
\* on_render_after returns a replacement, and for one whose hook returns None
C25_Witness ==
    /\ callStack = <<>> /\ result.status = "ok" /\ Len(lastExit) = 1 /\ ~lastExit[1].rd
    /\ lastExit[1].cls = "B"
    /\ FinalHtml("B") # TemplateOutput("B")
    /\ FinalHtml("C") = TemplateOutput("C")
    /\ result.out = <<CommentOpen, "B", "_", "0", ",", "u", "2", CommentClose, "b",
                      CommentOpen, "C", "_", "0", ",", "n", "3", CommentClose, "c",
                      CommentOpen, "D", "_", "0", ",", "n", "0", CommentClose, "d", "r">>

\* the manifest of the JS payload of a call, up to the end of the payload
PayloadManifest == SubSeq(pout.dep.js, Min(ManifestsIn(pout.dep.js)), Len(pout.dep.js))

Registered(cls) == HashCompCls(cls) \in DOMAIN registry /\ registry[HashCompCls(cls)] = cls

\* C27: once a render of a class has put its marker in front of its HTML,
\* with render_dependencies true or false, the registry resolves the hash of
\* the class to the class; so every marker in an output of a render resolves,
\* and no aggregation inside a render fails with the KeyError of a hash that
\* is not registered.
C27_MarkedClassesRegistered ==
    /\ \A i \in 1..Len(callStack) : callStack[i].pc = "pop" => Registered(callStack[i].cls)
    /\ \A cls \in rendered.finished : Registered(cls)
    /\ \A i \in 1..Len(lastExit) : lastExit[i].how = "return" => Registered(lastExit[i].cls)
    /\ result.status = "ok"
          => \A cls \in Classes :
                HasBlock(result.out, <<CommentOpen>> \o HashCompCls(cls) \o <<",">>)
                    => Registered(cls)
    /\ ~(exc.thrown.kind = "KeyError" /\ exc.thrown.arg = "str")

\* C27's case: a render without aggregation has returned an output with the
\* markers of three classes, and each of them resolves
C27_Witness ==
    /\ callStack = <<>> /\ result.status = "ok"
    /\ Len(lastExit) = 1 /\ ~lastExit[1].rd /\ lastExit[1].cls = "B"
    /\ \A cls \in {"B", "C", "D"} :
          HasBlock(result.out, <<CommentOpen>> \o HashCompCls(cls) \o <<",">>) /\ Registered(cls)
    /\ ~Registered("A")

\* the classes of a call's tree whose cached js or css holds an end tag
WithEndTag ==
    {c \in Classes \cup {"E", "F"} :
        /\ Contains(TreeClasses(pin.cls, 0), c)
        /\ \/ Contains(CacheGet(cache, GenCacheKey(HashCompCls(c), "js")), "</script")
           \/ Contains(CacheGet(cache, GenCacheKey(HashCompCls(c), "css")), "</style")}

\* the document-type calls on the output of a tree rendered in this process
DocumentOfRendered ==
    /\ pin.op = "render_dependencies" /\ pout.stage = "done" /\ pin.type = "document"
    /\ pin.cls # "None" /\ pin.known /\ pin.extra = <<>>

\* a document-type call on a tree with an end tag in a cached js or css
\* raises the error about the end tag and returns nothing
C28_EndTagRaises ==
    (DocumentOfRendered /\ WithEndTag # {})
        => (~pout.ok /\ pout.out = <<>> /\ pout.err = "RuntimeError: end tag")

\* C28 (as the specification states it): a document-type aggregation raises
\* and returns nothing when the cached js of a class of the tree holds
\* '</script' or its cached css holds '</style'; and for every class that
\* declares a non-empty js or css, the literal tag is either built around the
\* cached content or refused with that error: nothing else fails.
C28_TagOrEndTagError ==
    DocumentOfRendered
        => /\ WithEndTag # {}
                => (~pout.ok /\ pout.out = <<>> /\ pout.err = "RuntimeError: end tag")
           /\ \A c \in Classes \cup {"E", "F"}, script_type \in ScriptTypes :
                 (Contains(TreeClasses(pin.cls, 0), c) /\ IsNonemptyStr(ClsScript(c, script_type)))
                    => LET tag == GetScriptTag(cache, script_type, c)
                       IN  \/ tag.ok /\ HasBlock(tag.tag, GetScriptContent(cache, script_type, c))
                           \/ ~tag.ok /\ tag.err = "RuntimeError: end tag"
           /\ ~pout.ok => pout.err = "RuntimeError: end tag"

\* the calls that C28_EndTagRaises is about: js with an end tag, css with one
C28_EndTagJsWitness == DocumentOfRendered /\ pin.cls = "E" /\ WithEndTag = {"E"} /\ ~pout.ok
C28_EndTagCssWitness == DocumentOfRendered /\ pin.cls = "F" /\ WithEndTag = {"F"} /\ ~pout.ok

\* the classes of a call's tree in the order of their first markers
ClassesInOrder == Unique(TreeClasses(pin.cls, 0))

\* the manifest block of a JS payload, from its opening tag to its closing
\* tag, or nothing
ManifestBlock(js) ==
    IF ~Contains(js, ManifestOpen) THEN <<>>
    ELSE LET at == Min(ManifestsIn(js))
         IN  SubSeq(js, at, Min({i \in at..Len(js) : js[i] = "</script>"}))

\* the <script> blocks of the inlined js of the classes, in their order
RECURSIVE InlinedJsBlocks(_)
InlinedJsBlocks(classes) ==
    IF classes = <<>> THEN <<>>
    ELSE (IF IsNonemptyStr(ClsJs(Head(classes)))
          THEN <<"<script>">> \o GetScriptContent(cache, "js", Head(classes)) \o <<"</script>">>
          ELSE <<>>)
         \o InlinedJsBlocks(Tail(classes))

AggregatedAgain == pin.op = "render_dependencies" /\ pout.stage = "again"

\* C30 (as the specification states it): render_dependencies applied with a
\* type to what render_dependencies returned for that type returns it
\* unchanged, for documents with head and body, for documents with
\* placeholders, and for fragments.
C30_AggregationIdempotent ==
    AggregatedAgain => (pout.again.ok /\ pout.again.out = pout.out)

\* what holds of the second call: it succeeds; a fragment comes back
\* unchanged, and so does a document without </body>; a document with
\* </body> comes back with one more tag of the core client script in front
\* of </body> and is otherwise unchanged
C30_SecondPass ==
    AggregatedAgain
        => /\ pout.again.ok
           /\ (pin.type = "fragment" \/ ~Contains(pout.out, "</body>"))
                => pout.again.out = pout.out
           /\ (pin.type = "document" /\ Contains(pout.out, "</body>"))
                => pout.again.out = AtEndOf(pout.out, "</body>", ScriptSrcTag(CoreScriptUrl))

\* the second call on a document with head and body that had placeholders
C30_SecondPassWitness ==
    /\ AggregatedAgain /\ pin.type = "document" /\ pin.cls = "C" /\ pin.page
    /\ pin.css_placeholder /\ pin.js_placeholder
    /\ pout.again.out # pout.out
    /\ Len(pout.again.out) = Len(pout.out) + Len(ScriptSrcTag(CoreScriptUrl))

====
